---- MODULE Spec2Model ----
(***************************************************************************)
(* Model of dangogh/silver-eureka: the admission-control layer             *)
(* (internal/middleware/ratelimit.go) and the session store with the web   *)
(* handlers over it (internal/web/session.go, internal/web/handlers.go)    *)
(* as state machines, the retrying request log                             *)
(* (internal/database/database.go with internal/handler/handler.go), the   *)
(* BasicAuth middleware (internal/middleware/auth.go) and the mutexes of   *)
(* the limiter; and, each called on its own, the error classifier of the   *)
(* request log (isRetryableError) and the two functions that derive the    *)
(* caller's address from a request (getIPAddress of the handler and of     *)
(* the limiter).                                                           *)
(*                                                                         *)
(* Time is counted in whole seconds since the limiter was constructed.     *)
(* Token levels are kept in units of 1/Scale token, so that the refill of  *)
(* reqPerMin/60 tokens per second is the integer reqPerMin units per       *)
(* second and one request costs Scale units.  The arithmetic of the        *)
(* bucket is exact here; the library computes it in float64.               *)
(*                                                                         *)
(* Strings are sequences of one-character strings; the inputs of the       *)
(* request log are sequences of bytes, as sanitizeInput measures and cuts  *)
(* them.                                                                   *)
(***************************************************************************)
EXTENDS Integers, Sequences, FiniteSets, TLC

\* ------------------------------------------------------------------ bounds
\* requests received plus clock steps taken
MaxEvents == 4

\* ------------------------------------------------------- program constants
Scale == 60
BurstDivisor == 10
CleanupInterval == 300
StatusTooManyRequests == 429
StatusNotFound == 404
\* seconds for one token at 10 requests per minute
RefillWait == 6
StatusOK == 200
StatusSeeOther == 303
StatusUnauthorized == 401
StatusForbidden == 403
StatusInternalServerError == 500

\* -------------------------------------------------------- input alphabets
Procs == {"p1", "p2"}
\* <<perIPReqPerMin, globalReqPerMin>>, the arguments of NewRateLimiter
Configs == {<<5, 10>>, <<10, 30>>, <<20, 10>>, <<20, 5>>}
TickSteps == {3, CleanupInterval}
Request(remoteAddr, xff, xri) == [RemoteAddr |-> remoteAddr, XFF |-> xff, XRealIP |-> xri]
RemoteAddrs == {<<"a", ":", "1">>, <<"b", ":", "1">>}
Requests == {Request(<<"a", ":", "1">>, << >>, << >>),
             Request(<<"a", ":", "1">>, <<"b", ",", "x">>, << >>),
             Request(<<"b", ":", "1">>, << >>, <<"a">>)}
NoReq == Request(<< >>, << >>, << >>)

VARIABLES
  perIPRate,    \* rl.perIPRate, in units per second
  perIPBurst,   \* rl.perIPBurst
  global,       \* rl.global: the limiter object
  perIP,        \* rl.perIP: key -> index into heap
  heap,         \* the per-IP limiter objects ever allocated, by address
  mu,           \* rl.mu: "" when free, else its holder
  pending,      \* keys the running cleanup loop has still to visit
  tickC,        \* rl.cleanup.C holds a tick
  now,          \* wall clock, seconds since construction
  nEvents,      \* number of requests received and clock steps taken
  pc, req, ip, limiter, status, served,   \* per request task
  allowed,      \* history: what the Allow calls of the request returned
  fresh,        \* history: no time has passed since the request arrived
  ref,          \* history: the registry as it would be had no sweep run
  refOk,        \* history: the per-key decision of that registry
  acq,          \* history: per limiter object, when created, calls, admissions
  admittedNow,  \* history: per peer, requests admitted at this instant
  adm,          \* history, kept where adm.on: per key and instant, the
                \* requests admitted; per instant, the requests the
                \* global limiter let pass
  stopped,      \* rl.cleanup has been stopped (Stop was called)
  timeout,      \* s.timeout of the session store, in seconds
  sessions,     \* s.sessions: session id -> Session
  sessTick,     \* the channel of cleanupExpired's ticker holds a tick
  sweep,        \* the cleanupExpired goroutine: position and locals
  call,         \* per web task: the call it runs, its locals and results
  hist,         \* history: per session id, whether Create has returned the
                \* id once or more than once, whether Delete was called for
                \* it since, (for an id not deleted since) the Session
                \* last stored, and whether a Get has found it expired
                \* since Create last stored it
  rows,         \* the request_logs table: the rows inserted, in order
  wr,           \* the task that logs a request: its position, locals, results
  ba,           \* the BasicAuth middleware: its configuration and its call
  bmu,          \* the mutexes of the limiter objects that are held: limiter
                \* (0 = rl.global, else its index in heap) -> holder
  ws,           \* per concurrent task that logs a request: as wr
  conns,        \* the tasks that hold a connection of db.conn's pool
  fn            \* a function called on its own: its argument and its result

vars == <<perIPRate, perIPBurst, global, perIP, heap, mu, pending, tickC, now,
          nEvents, pc, req, ip, limiter, status, served,
          allowed, fresh, ref, refOk, acq, admittedNow, adm,
          stopped, timeout, sessions, sessTick, sweep, call, hist,
          rows, wr, ba, bmu, ws, conns, fn>>

Min(a, b) == IF a <= b THEN a ELSE b

\* ------------------------------------------------ golang.org/x/time/rate
\* rate.NewLimiter(r, b): a full bucket whose last update is the zero time.
NewLimiter(r, b) == [limit |-> r, burst |-> b, tokens |-> b * Scale, last |-> 0]

\* (*Limiter).advance: the level at time t, after the refill for the time
\* elapsed since lim.last, capped at the burst.
Advance(lim, t) ==
  LET last == IF t < lim.last THEN t ELSE lim.last
      tokens == lim.tokens + (t - last) * lim.limit
  IN  Min(tokens, lim.burst * Scale)

\* (*Limiter).Tokens()
Tokens(lim, t) == Advance(lim, t)

\* (*Limiter).Allow(): whether one token can be taken at time t.
AllowOk(lim, t) == 1 <= lim.burst /\ Advance(lim, t) - Scale >= 0

\* (*Limiter).Allow(): the limiter after the call; only an admitted call
\* updates it.
AllowNext(lim, t) ==
  IF AllowOk(lim, t)
    THEN [lim EXCEPT !.tokens = Advance(lim, t) - Scale, !.last = t]
    ELSE lim

\* ---------------------------------------------------------- getIPAddress
RECURSIVE IndexFrom(_, _, _)
IndexFrom(s, c, i) ==
  IF i > Len(s) THEN -1
  ELSE IF s[i] = c THEN i - 1
  ELSE IndexFrom(s, c, i + 1)

\* indexOf(s, c): 0-based index of the first c in s, or -1
indexOf(s, c) == IndexFrom(s, c, 1)

getIPAddress(r) ==
  IF r.XFF /= << >>
    THEN IF indexOf(r.XFF, ",") > 0
           THEN SubSeq(r.XFF, 1, indexOf(r.XFF, ","))
           ELSE r.XFF
  ELSE IF r.XRealIP /= << >>
    THEN r.XRealIP
  ELSE IF indexOf(r.RemoteAddr, ":") > 0
    THEN SubSeq(r.RemoteAddr, 1, indexOf(r.RemoteAddr, ":"))
  ELSE r.RemoteAddr

\* ------------------------------------------------------- NewRateLimiter
\* faulty variant of PerIPBurstOf: the burst is a fifth of the per-minute rate
PerIPBurstFifth(perIPReqPerMin) == perIPReqPerMin \div 5
PerIPRateOf(perIPReqPerMin) == perIPReqPerMin
PerIPBurstOf(perIPReqPerMin) == perIPReqPerMin \div BurstDivisor
GlobalLimiterOf(globalReqPerMin) ==
  NewLimiter(globalReqPerMin, globalReqPerMin \div BurstDivisor)


\* ------------------------------------------------ internal/web/session.go
\* the task that serves the web requests and the task that calls the store
\* directly, as the tests of the store do
HandlerProcs == {"w1"}
StoreProcs == {"w2"}
WebProcs == HandlerProcs \cup StoreProcs
\* NewHandler builds the store with 24 hours
HandlerTimeout == 86400
\* the ticker of cleanupExpired: 10 minutes
SweepInterval == 600

\* the arguments NewSessionStore is given, and the clock steps, in seconds
SessionTimeouts == {300}
WebTickSteps == {300, 600}
\* the credentials NewHandler is given
AuthUsername == "admin"
AuthPassword == "secret"
\* the username the direct caller of Create gives (a login gives AuthUsername)
Usernames == {"eve"}

\* crypto/rand.Read: the bytes it delivers, or its failure
RandReads == {<<0>>, <<255>>}
RandOutcomes == {[err |-> FALSE, b |-> b] : b \in RandReads} \cup {[err |-> TRUE, b |-> << >>]}

\* encoding/hex.EncodeToString
HexDigits == <<"0", "1", "2", "3", "4", "5", "6", "7", "8", "9", "a", "b", "c", "d", "e", "f">>
RECURSIVE EncodeToString(_)
EncodeToString(b) ==
  IF b = << >> THEN << >>
  ELSE <<HexDigits[(b[1] \div 16) + 1], HexDigits[(b[1] % 16) + 1]>> \o EncodeToString(Tail(b))

\* lines 91-97: the session id of one read of the entropy source
generateSessionID(r) ==
  IF r.err THEN [id |-> << >>, err |-> TRUE]
  ELSE [id |-> EncodeToString(r.b), err |-> FALSE]

SessionIDs == {generateSessionID(r).id : r \in {o \in RandOutcomes : ~o.err}}

Session(username, expiresAt) == [Username |-> username, ExpiresAt |-> expiresAt]
\* Session{}: the zero value
NoSession == Session("", 0)

\* the parts of a request the web handlers read: the session_id cookie, the
\* form values username, password and csrf_token, and the csrf_token cookie
\* (an empty sequence or string stands for: not sent)
WebRequest(cookie, username, password, csrfForm, csrfCookie) ==
  [cookie |-> cookie, username |-> username, password |-> password,
   csrfForm |-> csrfForm, csrfCookie |-> csrfCookie]
NoWebReq == WebRequest(<< >>, "", "", "", "")
LoginRequests == {WebRequest(<< >>, "admin", "secret", "t1", "t1"),
                  WebRequest(<< >>, "admin", "secret", "t1", "t2"),
                  WebRequest(<< >>, "admin", "secret", "t1", ""),
                  WebRequest(<< >>, "admin", "wrong", "t1", "t1")}
LogoutRequests == {WebRequest(c, "", "", "wrong", "") : c \in SessionIDs \cup {<< >>}}
AuthRequests == {WebRequest(c, "", "", "", "") : c \in SessionIDs \cup {<< >>}}

\* the frame of a web task that runs no call.  pc, op: where it is and in
\* which call; sessionID, session, ok, err: locals and results of the store
\* call; status, next: the answer written and the calls of the protected
\* handler; history: at = the clock value Get compared with, loaded = the
\* call found an entry under its id, removed = the call took an entry out of
\* the map, rand = reads of the entropy source, randFailed = a read of it
\* failed, gone = Delete had been
\* called for the id, and Create had not stored it since, when Get began,
\* life and principal = where the session of the id Get was given stood when
\* Get returned (see lifeOf)
NoCall == [pc |-> "idle", op |-> "", req |-> NoWebReq, sessionID |-> << >>,
           session |-> NoSession, ok |-> FALSE, err |-> FALSE, status |-> 0,
           next |-> 0, at |-> 0, loaded |-> FALSE, removed |-> FALSE, rand |-> 0,
           randFailed |-> FALSE, gone |-> FALSE, life |-> "none", principal |-> ""]

\* NewSessionStore(timeout): an empty store whose sweep waits for its ticker
NewSessionStore(t) ==
  /\ timeout = t
  /\ sessions = << >>
  /\ sessTick = FALSE
  /\ sweep = [pc |-> "recv", now |-> 0, pending |-> {}, key |-> << >>]
  /\ call = [w \in WebProcs |-> NoCall]
  /\ hist = << >>

\* ------------------------------------------------- request log: alphabets
\* In this part a Go string is the sequence of its bytes (0..255) and text
\* is UTF-8; an error is the sequence of the words of its Error() text, and
\* nil is the empty sequence.

\* longest input string drawn, in bytes
MaxInputLen == 3

\* sanitizeInput's maxLen for the address (45 in the source) and for the URL
\* (2048 in the source), scaled down to the inputs drawn
AddrMaxLen == 1
URLMaxLen == 2

\* executeWithRetry: maxRetries, and the first backoff in milliseconds
MaxRetries == 3
BackoffBase == 10
StatusServiceUnavailable == 503

\* utf8.RuneSelf and utf8.RuneError
RuneSelf == 128
RuneError == 65533

\* the bytes inputs are made of: "\n", "A", DEL, and the two bytes of "é"
\* (0xC3 0xA9), each of which alone is not valid UTF-8
InputBytes == {10, 65, 127, 195, 169}

RECURSIVE StringsUpTo(_)
StringsUpTo(n) ==
  IF n = 0 THEN {<< >>}
  ELSE LET shorter == StringsUpTo(n - 1)
       IN shorter \cup {Append(s, b) : s \in {t \in shorter : Len(t) = n - 1},
                                        b \in InputBytes}

URLInputs == StringsUpTo(MaxInputLen)
AddrInputs == {<<65>>, <<65, 10, 65>>}
\* the URLs of the requests whose retries are followed
LogURLInputs == {<<65, 65, 65>>, <<10, 65>>}

\* "/test\n\r\x00path" and "/testpath" (database_test.go lines 703, 729)
TestURL == <<47, 116, 101, 115, 116, 10, 13, 0, 112, 97, 116, 104>>
TestURLSanitized == <<47, 116, 101, 115, 116, 112, 97, 116, 104>>

\* what the operation can return: nil, the three texts isRetryableError
\* looks for, and errors of other kinds
ErrLocked == <<"database", "is", "locked">>
ErrTableLocked == <<"database", "table", "is", "locked">>
ErrBusy == <<"SQLITE_BUSY">>
ErrDiskFull == <<"disk", "is", "full">>
ErrAfter == <<"after", "3", "retries">>
OpErrors == {ErrLocked, ErrTableLocked, ErrBusy, ErrDiskFull, ErrAfter}
OpOutcomes == {<< >>} \cup OpErrors

\* the task that logs a request; op: the call it was given; rawAddr, rawURL:
\* the arguments of LogRequest before line 119 overwrote them (history);
\* ipAddress, url: the sanitized arguments; attempt: the loop variable;
\* err: what executeWithRetry returned; status: the answer of the handler;
\* logged: the handler reported the request as logged; history: outcomes =
\* what each invocation of the operation returned, in order, sleeps = the
\* backoffs slept, in order, before = the number of rows in the table when
\* the call began
NoWrite == [pc |-> "idle", op |-> "", rawAddr |-> << >>, rawURL |-> << >>,
            ipAddress |-> << >>, url |-> << >>, attempt |-> 0, err |-> << >>,
            status |-> 0, logged |-> FALSE, outcomes |-> << >>, sleeps |-> << >>,
            before |-> 0]

\* the credentials BasicAuth is built with ("" = not configured)
BasicAuthConfigs == {<<"admin", "secret">>, <<"", "">>, <<"admin", "">>, <<"", "secret">>}

\* Authorization header values: none, one that is not Basic credentials,
\* Basic credentials without a colon, and Basic credentials user:pass
BasicAuthUsers == {"admin", "eve", ""}
BasicAuthPasswords == {"secret", "guess", ""}
AuthorizationHeaders ==
  {<< >>, <<"Bearer", "admin", ":", "secret">>, <<"Basic", "admin">>}
    \cup {<<"Basic", u, ":", p>> : u \in BasicAuthUsers, p \in BasicAuthPasswords}

\* the middleware; status: the answer written (0 = none by the middleware),
\* next: calls of the wrapped handler, header: the header of the request
NewBasicAuth(username, password) ==
  [username |-> username, password |-> password, pc |-> "idle", header |-> << >>,
   status |-> 0, next |-> 0]

\* the tasks that log requests concurrently
Writers == {"l1", "l2"}
\* no function has been called
NoApply == [op |-> "", arg |-> << >>, result |-> << >>]

\* database.New and BasicAuth(username, password): an empty table, no
\* request being logged
NewLog(configs) ==
  /\ rows = << >>
  /\ wr = NoWrite
  /\ ws = [t \in Writers |-> NoWrite]
  /\ conns = {}
  /\ fn = NoApply
  /\ \E c \in configs : ba = NewBasicAuth(c[1], c[2])

\* the history of admissions where none is kept, and where none has been
\* recorded yet
NoRecord == [on |-> FALSE, admits |-> << >>, passes |-> << >>]
NewRecord == [on |-> TRUE, admits |-> << >>, passes |-> << >>]

\* lines 30-43: the limiter NewRateLimiter(c[1], c[2]) returns, c in configs;
\* record: the history of admissions it starts with
InitLimiter(configs, record) ==
  /\ \E c \in configs :
       /\ perIPRate = PerIPRateOf(c[1])
       /\ perIPBurst = PerIPBurstOf(c[1])
       /\ global = GlobalLimiterOf(c[2])
  /\ perIP = << >>
  /\ heap = << >>
  /\ mu = ""
  /\ pending = {}
  /\ tickC = FALSE
  /\ now = 0
  /\ nEvents = 0
  /\ pc = [p \in Procs |-> "idle"]
  /\ req = [p \in Procs |-> NoReq]
  /\ ip = [p \in Procs |-> << >>]
  /\ limiter = [p \in Procs |-> 0]
  /\ status = [p \in Procs |-> 0]
  /\ served = [p \in Procs |-> 0]
  /\ allowed = [p \in Procs |-> "none"]
  /\ fresh = [p \in Procs |-> FALSE]
  /\ ref = << >>
  /\ refOk = [p \in Procs |-> FALSE]
  /\ acq = << >>
  /\ admittedNow = [a \in RemoteAddrs |-> 0]
  /\ adm = record
  /\ stopped = FALSE
  /\ bmu = << >>

InitWith(configs) == InitLimiter(configs, NoRecord)

Init ==
  InitWith(Configs) /\ NewSessionStore(HandlerTimeout) /\ NewLog({<<"", "">>})

\* history of a limiter object within the current instant: "fresh" when it
\* was created in it, "waited" when it entered it drained to 0 and unused for
\* RefillWait seconds or more, else "other"; and for the first two, the
\* Allow calls made on it in this instant and how many of them returned true
Acq(kind) == [kind |-> kind, calls |-> 0, admits |-> 0]
AcqAfterTick(lim, t) ==
  IF lim.tokens = 0 /\ t - lim.last >= RefillWait THEN Acq("waited") ELSE Acq("other")

\* a store that writes the value under every key of the map
MapPutAll(m, k, v) == [x \in DOMAIN m \cup {k} |-> v]

\* m with key k bound to v
MapPut(m, k, v) == [x \in DOMAIN m \cup {k} |-> IF x = k THEN v ELSE m[x]]
\* a delete that leaves the map as it is
MapDeleteNone(m, k) == m
\* m without key k
MapDelete(m, k) == [x \in DOMAIN m \ {k} |-> m[x]]

\* the number the history m holds for x
CountAt(m, x) == IF x \in DOMAIN m THEN m[x] ELSE 0
\* the history a after a request of key k was admitted at time t
admRecord(a, k, t) ==
  IF a.on THEN [a EXCEPT !.admits = MapPut(@, <<k, t>>, CountAt(@, <<k, t>>) + 1)] ELSE a
\* the history a after the global limiter let a request pass at time t
admPass(a, t) ==
  IF a.on THEN [a EXCEPT !.passes = MapPut(@, t, CountAt(@, t) + 1)] ELSE a

procVars == <<pc, req, ip, limiter, status, served, allowed, fresh>>
histVars == <<ref, refOk, acq, admittedNow, adm>>
clockVars == <<now, tickC>>
cfgVars == <<perIPRate, perIPBurst>>
webVars == <<timeout, sessions, sessTick, sweep, call, hist>>
concVars == <<ws, conns, fn>>
logVars == <<rows, wr, ba, concVars>>

\* ------------------------------------------------- RateLimiter.Middleware
\* faulty variant of Proceeds: the return after http.Error is missing
ProceedsAlways(ok) == TRUE

\* lines 86-93, 97-104: the handler goes on past an Allow() that returned ok
\* and returns after one that did not
Proceeds(ok) == ok

\* a global limiter that is asked but not charged
globalPeek(lim) == lim

\* line 86: rl.global.Allow(), the global limiter after the call
globalAllow(lim) == AllowNext(lim, now)

\* faulty variant of perIPAllow: takes the token whether or not one is there,
\* as limiter.Reserve() would
perIPReserve(lim) == [lim EXCEPT !.tokens = Advance(lim, now) - Scale, !.last = now]

\* line 97: limiter.Allow(), the per-IP limiter after the call
perIPAllow(lim) == AllowNext(lim, now)

\* the request task p has answered: its locals are gone, its response stays
Answered(p, code, calls, result) ==
  /\ pc' = [pc EXCEPT ![p] = "done"]
  /\ req' = [req EXCEPT ![p] = NoReq]
  /\ ip' = [ip EXCEPT ![p] = << >>]
  /\ limiter' = [limiter EXCEPT ![p] = 0]
  /\ fresh' = [fresh EXCEPT ![p] = FALSE]
  /\ status' = [status EXCEPT ![p] = code]
  /\ served' = [served EXCEPT ![p] = calls]
  /\ allowed' = [allowed EXCEPT ![p] = result]

\* lines 81-93: a request arrives at task p; the handler derives the key and
\* asks the global limiter
ServeHTTP(p, r) ==
  /\ pc[p] \in {"idle", "done"}
  /\ nEvents' = nEvents + 1
  /\ global' = globalAllow(global)
  /\ refOk' = [refOk EXCEPT ![p] = FALSE]
  /\ IF Proceeds(AllowOk(global, now))
       THEN /\ pc' = [pc EXCEPT ![p] = "getLimiter"]
            /\ req' = [req EXCEPT ![p] = r]
            /\ ip' = [ip EXCEPT ![p] = getIPAddress(r)]
            /\ fresh' = [fresh EXCEPT ![p] = TRUE]
            /\ status' = [status EXCEPT ![p] = 0]
            /\ served' = [served EXCEPT ![p] = 0]
            /\ allowed' = [allowed EXCEPT ![p] =
                             IF AllowOk(global, now) THEN "none" ELSE "globalReject"]
            /\ UNCHANGED limiter
       ELSE Answered(p, StatusTooManyRequests, 0, "globalReject")
  /\ adm' = IF AllowOk(global, now) THEN admPass(adm, now) ELSE adm
  /\ UNCHANGED <<stopped, bmu, logVars, webVars, cfgVars, perIP, heap, mu, pending, clockVars, ref, acq,
                 admittedNow>>

\* line 71: the limiter getLimiter makes for a key it has not seen
getLimiterNew == NewLimiter(perIPRate, perIPBurst)

\* lines 65-76, under rl.mu: look the key up, create its limiter if absent
getLimiter(p) ==
  /\ pc[p] = "getLimiter"
  /\ mu = ""
  /\ IF ip[p] \in DOMAIN perIP
       THEN /\ limiter' = [limiter EXCEPT ![p] = perIP[ip[p]]]
            /\ UNCHANGED <<perIP, heap, acq>>
       ELSE /\ heap' = Append(heap, getLimiterNew)
            /\ perIP' = MapPut(perIP, ip[p], Len(heap) + 1)
            /\ limiter' = [limiter EXCEPT ![p] = Len(heap) + 1]
            /\ acq' = Append(acq, Acq("fresh"))
  /\ pc' = [pc EXCEPT ![p] = "allow"]
  /\ UNCHANGED <<stopped, bmu, logVars, webVars, cfgVars, global, mu, pending, clockVars, nEvents, req, ip, status,
                 served, allowed, fresh, ref, refOk, admittedNow, adm>>

\* the bucket the never-swept registry holds for key k
RefLimiter(k) == IF k \in DOMAIN ref THEN ref[k] ELSE NewLimiter(perIPRate, perIPBurst)

\* lines 97-106: ask the limiter getLimiter returned; on ok call the wrapped
\* handler (next.ServeHTTP), which answers the request
limiterAllow(p) ==
  LET lim == heap[limiter[p]]
      ok == AllowOk(lim, now)
  IN
  /\ pc[p] = "allow"
  /\ heap' = [heap EXCEPT ![limiter[p]] = perIPAllow(lim)]
  /\ IF Proceeds(ok)
       THEN Answered(p, StatusNotFound, served[p] + 1,
                     IF ok THEN "accept" ELSE "ipReject")
       ELSE Answered(p, StatusTooManyRequests, served[p], "ipReject")
  /\ refOk' = [refOk EXCEPT ![p] = AllowOk(RefLimiter(ip[p]), now)]
  /\ ref' = MapPut(ref, ip[p], AllowNext(RefLimiter(ip[p]), now))
  /\ acq' = [acq EXCEPT ![limiter[p]] =
               IF @.kind = "other" THEN @
               ELSE [@ EXCEPT !.calls = @ + 1, !.admits = IF ok THEN @ + 1 ELSE @]]
  /\ admittedNow' =
       IF ok /\ fresh[p]
         THEN [admittedNow EXCEPT ![req[p].RemoteAddr] = @ + 1]
         ELSE admittedNow
  /\ adm' = IF ok THEN admRecord(adm, ip[p], now) ELSE adm
  /\ UNCHANGED <<stopped, bmu, logVars, webVars, cfgVars, global, perIP, mu, pending, clockVars, nEvents>>

\* ------------------------------------------------------------ the clock
\* d seconds pass; the ticker puts a tick in its channel every
\* CleanupInterval seconds
Tick(d) ==
  /\ nEvents' = nEvents + 1
  /\ now' = now + d
  /\ tickC' = (tickC \/ (~stopped /\ (now + d) \div CleanupInterval > now \div CleanupInterval))
  /\ fresh' = [p \in Procs |-> FALSE]
  /\ admittedNow' = [a \in RemoteAddrs |-> 0]
  /\ acq' = [o \in DOMAIN acq |-> AcqAfterTick(heap[o], now + d)]
  /\ UNCHANGED <<stopped, bmu, logVars, webVars, cfgVars, global, perIP, heap, mu, pending, pc, req, ip,
                 limiter, status, served, allowed, ref, refOk, adm>>

\* --------------------------------------------- RateLimiter.cleanupRoutine
\* line 51: the sweep takes a limiter for idle when its bucket is full
cleanupIdle(lim) == Tokens(lim, now) >= perIPBurst * Scale

\* lines 47-48: a tick arrives, the routine takes rl.mu and starts the range
cleanupLock ==
  /\ tickC
  /\ mu = ""
  /\ tickC' = FALSE
  /\ mu' = "cleanup"
  /\ pending' = DOMAIN perIP
  /\ UNCHANGED <<stopped, bmu, logVars, webVars, cfgVars, global, perIP, heap, now, nEvents, procVars, histVars>>

\* lines 50-54: one iteration of the range over rl.perIP
cleanupVisit(k) ==
  /\ mu = "cleanup"
  /\ k \in pending
  /\ pending' = pending \ {k}
  /\ perIP' = IF cleanupIdle(heap[perIP[k]]) THEN MapDelete(perIP, k) ELSE perIP
  /\ UNCHANGED <<stopped, bmu, logVars, webVars, cfgVars, global, heap, mu, clockVars, nEvents, procVars, histVars>>

\* line 55: the range is over, the routine releases rl.mu
cleanupUnlock ==
  /\ mu = "cleanup"
  /\ pending = {}
  /\ mu' = ""
  /\ UNCHANGED <<stopped, bmu, logVars, webVars, cfgVars, global, perIP, heap, pending, clockVars, nEvents, procVars,
                 histVars>>

Next ==
  \/ nEvents < MaxEvents /\ \E p \in Procs, r \in Requests : ServeHTTP(p, r)
  \/ \E p \in Procs : getLimiter(p)
  \/ \E p \in Procs : limiterAllow(p)
  \/ nEvents < MaxEvents /\ \E d \in TickSteps : Tick(d)
  \/ cleanupLock
  \/ \E k \in pending : cleanupVisit(k)
  \/ cleanupUnlock

Spec == Init /\ [][Next]_vars

\* One client that sends one request at a time with no headers, against the
\* limiter of the unit test (10 per minute per IP) and of the router (100 per
\* minute per IP, 10000 per minute in all).
SeqConfigs == {<<10, 10000>>, <<100, 10000>>}
SeqRequest == Request(<<"a", ":", "1">>, << >>, << >>)
SeqTickSteps == {3, 6}
MaxSeqEvents == 16

InitSeq ==
  InitWith(SeqConfigs) /\ NewSessionStore(HandlerTimeout) /\ NewLog({<<"", "">>})

NextSeq ==
  \/ nEvents < MaxSeqEvents /\ ServeHTTP("p1", SeqRequest)
  \/ getLimiter("p1")
  \/ limiterAllow("p1")
  \/ nEvents < MaxSeqEvents /\ \E d \in SeqTickSteps : Tick(d)

SpecSeq == InitSeq /\ [][NextSeq]_vars

\* ------------------------------------------------------ RateLimiter.Stop
\* lines 60-62: rl.cleanup.Stop().  The ticker sends no further tick; Stop of
\* a time.Ticker does not close the channel, so a tick already in it stays.
Stop ==
  /\ ~stopped
  /\ stopped' = TRUE
  /\ UNCHANGED <<bmu, logVars, webVars, cfgVars, global, perIP, heap, mu, pending, clockVars,
                 nEvents, procVars, histVars>>

\* where the goroutine of cleanupRoutine is: at the receive of
\* `for range rl.cleanup.C` (line 47) or inside the loop body (lines 48-55);
\* "returned" once the range has ended, which takes a closed channel
cleanupAt == IF mu = "cleanup" THEN "body" ELSE "receive"

\* a step of the goroutine of cleanupRoutine
cleanupRoutineNext ==
  \/ cleanupLock
  \/ \E k \in pending : cleanupVisit(k)
  \/ cleanupUnlock

\* The limiter serving requests while it is shut down.
MaxStopEvents == 3

NextStop ==
  \/ nEvents < MaxStopEvents /\ \E p \in Procs, r \in Requests : ServeHTTP(p, r)
  \/ \E p \in Procs : getLimiter(p)
  \/ \E p \in Procs : limiterAllow(p)
  \/ nEvents < MaxStopEvents /\ \E d \in TickSteps : Tick(d)
  \/ cleanupLock
  \/ \E k \in pending : cleanupVisit(k)
  \/ cleanupUnlock
  \/ Stop

SpecStop == Init /\ [][NextStop]_vars

\* ----------------------------------------------------------------------
\* internal/web/session.go and the handlers of internal/web/handlers.go
\* that use the store.  A call of Create, Get or Delete made by a handler is
\* run by the same steps as a direct call; op tells which it is.
limiterVars == <<cfgVars, global, perIP, heap, mu, pending, tickC, stopped, bmu,
                 procVars, histVars>>

\* time.Time.After
After(t, u) == t > u

ExpiredNever(session, t) == FALSE
\* session.go lines 60 and 82: the clock value t is after session.ExpiresAt
Expired(session, t) == After(t, session.ExpiresAt)

FailedNever(err) == FALSE
\* session.go line 37: err != nil
Failed(err) == err

storeDeleteKeep(m, id) == m
\* session.go line 70: s.sessions.Delete(sessionID)
storeDelete(m, id) == MapDelete(m, id)

AuthenticatedAlways(ok) == TRUE
\* handlers.go line 450: the ok of h.sessions.Get
Authenticated(ok) == ok

\* hist after Create has stored session under id
histStore(h, id, session) ==
  MapPut(h, id, [session |-> session, deleted |-> FALSE,
                 creates |-> IF id \in DOMAIN h /\ h[id].creates >= 1 THEN 2 ELSE 1,
                 lapsed |-> FALSE])
\* hist after Delete(id)
histDelete(h, id) ==
  MapPut(h, id, [session |-> NoSession, deleted |-> TRUE,
                 creates |-> IF id \in DOMAIN h THEN h[id].creates ELSE 0,
                 lapsed |-> id \in DOMAIN h /\ h[id].lapsed])
\* hist after a Get of id has found its Session expired and returned
\* not-found
histLapse(h, id) ==
  IF id \in DOMAIN h THEN [h EXCEPT ![id].lapsed = TRUE] ELSE h

\* where the session of id stands at clock value t: "none" when Create has
\* not returned id exactly once or Delete(id) was called since; else "live"
\* before its ExpiresAt, "edge" at it, "over" after it
lifeOf(h, id, t) ==
  IF id \notin DOMAIN h \/ h[id].deleted \/ h[id].creates /= 1 THEN "none"
  ELSE IF t < h[id].session.ExpiresAt THEN "live"
  ELSE IF t > h[id].session.ExpiresAt THEN "over"
  ELSE "edge"

\* Create returns (id, err); HandleLoginSubmit (handlers.go lines 291-309)
\* answers 500 on an error, else sets the cookie and redirects
createReturn(fr, id, err) ==
  [fr EXCEPT !.pc = "done", !.sessionID = id, !.err = err,
             !.status = IF fr.op = "HandleLoginSubmit"
                        THEN (IF err THEN StatusInternalServerError ELSE StatusSeeOther)
                        ELSE 0]

\* session.go lines 36-44: the id is generated, the Session is built
createBegin(op, rq, username, r) ==
  LET g == generateSessionID(r)
      fr == [NoCall EXCEPT !.op = op, !.req = rq, !.rand = 1, !.randFailed = r.err]
  IN  IF Failed(g.err) THEN createReturn(fr, << >>, TRUE)
      ELSE [fr EXCEPT !.pc = "store", !.sessionID = g.id,
                      !.session = Session(username, now + timeout)]

Create(w, username, r) ==
  /\ call[w].pc \in {"idle", "done"}
  /\ call' = [call EXCEPT ![w] = createBegin("Create", NoWebReq, username, r)]
  /\ nEvents' = nEvents + 1
  /\ UNCHANGED <<logVars, limiterVars, now, timeout, sessions, sessTick, sweep, hist>>

\* session.go lines 46-47: s.sessions.Store, return
CreateStore(w) ==
  /\ call[w].pc = "store"
  /\ sessions' = MapPut(sessions, call[w].sessionID, call[w].session)
  /\ hist' = histStore(hist, call[w].sessionID, call[w].session)
  /\ call' = [call EXCEPT ![w] = createReturn(@, @.sessionID, FALSE)]
  /\ UNCHANGED <<logVars, limiterVars, now, nEvents, timeout, sessTick, sweep>>

\* Get returns (session, ok); RequireAuth (handlers.go lines 449-461) calls
\* the protected handler when ok, else answers 404
getReturn(fr, session, ok) ==
  [fr EXCEPT !.pc = "done", !.session = session, !.ok = ok,
             !.life = lifeOf(hist, fr.sessionID, now),
             !.principal = IF lifeOf(hist, fr.sessionID, now) = "none" THEN ""
                           ELSE hist[fr.sessionID].session.Username,
             !.status = IF fr.op = "RequireAuth"
                        THEN (IF Authenticated(ok) THEN StatusOK ELSE StatusNotFound)
                        ELSE 0,
             !.next = IF fr.op = "RequireAuth" /\ Authenticated(ok) THEN 1 ELSE 0]

\* session.go lines 52-57: s.sessions.Load
getBegin(op, rq, id) ==
  LET fr == [NoCall EXCEPT !.op = op, !.req = rq, !.sessionID = id, !.at = now,
                           !.gone = id \in DOMAIN hist /\ hist[id].deleted]
  IN  IF id \notin DOMAIN sessions THEN getReturn(fr, NoSession, FALSE)
      ELSE [fr EXCEPT !.pc = "check", !.session = sessions[id], !.loaded = TRUE]

Get(w, id) ==
  /\ call[w].pc \in {"idle", "done"}
  /\ call' = [call EXCEPT ![w] = getBegin("Get", NoWebReq, id)]
  /\ nEvents' = nEvents + 1
  /\ UNCHANGED <<logVars, limiterVars, now, timeout, sessions, sessTick, sweep, hist>>

\* session.go lines 60 and 65: the clock is read and compared
GetCheck(w) ==
  /\ call[w].pc = "check"
  /\ call' = [call EXCEPT ![w] =
                IF Expired(@.session, now) THEN [@ EXCEPT !.pc = "delete", !.at = now]
                ELSE getReturn([@ EXCEPT !.at = now], @.session, TRUE)]
  /\ UNCHANGED <<logVars, limiterVars, now, nEvents, timeout, sessions, sessTick, sweep, hist>>

\* session.go lines 61-62: the lazy delete
GetDelete(w) ==
  /\ call[w].pc = "delete"
  /\ sessions' = MapDelete(sessions, call[w].sessionID)
  /\ call' = [call EXCEPT ![w] = getReturn([@ EXCEPT !.removed = TRUE], NoSession, FALSE)]
  /\ hist' = histLapse(hist, call[w].sessionID)
  /\ UNCHANGED <<logVars, limiterVars, now, nEvents, timeout, sessTick, sweep>>

\* session.go lines 69-71
Delete(w, id) ==
  /\ call[w].pc \in {"idle", "done"}
  /\ sessions' = storeDelete(sessions, id)
  /\ hist' = histDelete(hist, id)
  /\ call' = [call EXCEPT ![w] = [NoCall EXCEPT !.pc = "done", !.op = "Delete",
                                                !.sessionID = id,
                                                !.loaded = id \in DOMAIN sessions,
                                                !.removed = sessions' /= sessions]]
  /\ nEvents' = nEvents + 1
  /\ UNCHANGED <<logVars, limiterVars, now, timeout, sessTick, sweep>>

\* handlers.go lines 268-310
HandleLoginSubmit(w, rq, r) ==
  /\ call[w].pc \in {"idle", "done"}
  /\ call' = [call EXCEPT ![w] =
                IF rq.username /= AuthUsername \/ rq.password /= AuthPassword
                THEN [NoCall EXCEPT !.pc = "done", !.op = "HandleLoginSubmit",
                                    !.req = rq, !.status = StatusUnauthorized]
                ELSE createBegin("HandleLoginSubmit", rq, rq.username, r)]
  /\ nEvents' = nEvents + 1
  /\ UNCHANGED <<logVars, limiterVars, now, timeout, sessions, sessTick, sweep, hist>>

\* handlers.go lines 313-329
HandleLogout(w, rq) ==
  /\ call[w].pc \in {"idle", "done"}
  /\ IF rq.cookie /= << >>
     THEN /\ sessions' = storeDelete(sessions, rq.cookie)
          /\ hist' = histDelete(hist, rq.cookie)
     ELSE UNCHANGED <<sessions, hist>>
  /\ call' = [call EXCEPT ![w] = [NoCall EXCEPT !.pc = "done", !.op = "HandleLogout",
                                                !.req = rq, !.sessionID = rq.cookie,
                                                !.loaded = rq.cookie \in DOMAIN sessions,
                                                !.removed = sessions' /= sessions,
                                                !.status = StatusSeeOther]]
  /\ nEvents' = nEvents + 1
  /\ UNCHANGED <<logVars, limiterVars, now, timeout, sessTick, sweep>>

\* handlers.go lines 434-462 (the request it logs on a refusal is not kept)
RequireAuth(w, rq) ==
  /\ call[w].pc \in {"idle", "done"}
  /\ call' = [call EXCEPT ![w] =
                IF rq.cookie = << >>
                THEN [NoCall EXCEPT !.pc = "done", !.op = "RequireAuth", !.req = rq,
                                    !.status = StatusNotFound]
                ELSE getBegin("RequireAuth", rq, rq.cookie)]
  /\ nEvents' = nEvents + 1
  /\ UNCHANGED <<logVars, limiterVars, now, timeout, sessions, sessTick, sweep, hist>>

\* d seconds pass; the ticker of cleanupExpired puts a tick in its channel
\* every SweepInterval seconds
WebTick(d) ==
  /\ nEvents' = nEvents + 1
  /\ now' = now + d
  /\ sessTick' = (sessTick \/ (now + d) \div SweepInterval > now \div SweepInterval)
  /\ UNCHANGED <<logVars, limiterVars, timeout, sessions, sweep, call, hist>>

\* session.go lines 78-80: a tick arrives, the clock is read, the Range starts
cleanupExpiredRecv ==
  /\ sweep.pc = "recv"
  /\ sessTick
  /\ sessTick' = FALSE
  /\ sweep' = [pc |-> "range", now |-> now, pending |-> DOMAIN sessions, key |-> << >>]
  /\ UNCHANGED <<logVars, limiterVars, now, nEvents, timeout, sessions, call, hist>>

\* session.go lines 80-82: the Range hands one entry to the function
cleanupExpiredVisit(id) ==
  /\ sweep.pc = "range"
  /\ id \in sweep.pending
  /\ sweep' = IF id \in DOMAIN sessions /\ Expired(sessions[id], sweep.now)
              THEN [sweep EXCEPT !.pc = "delete", !.key = id, !.pending = @ \ {id}]
              ELSE [sweep EXCEPT !.pending = @ \ {id}]
  /\ UNCHANGED <<logVars, limiterVars, now, nEvents, timeout, sessions, sessTick, call, hist>>

\* session.go line 83: s.sessions.Delete(key)
cleanupExpiredDelete ==
  /\ sweep.pc = "delete"
  /\ sessions' = MapDelete(sessions, sweep.key)
  /\ sweep' = [sweep EXCEPT !.pc = "range", !.key = << >>]
  /\ UNCHANGED <<logVars, limiterVars, now, nEvents, timeout, sessTick, call, hist>>

\* session.go lines 86-87: the Range is over, back to the receive
cleanupExpiredEnd ==
  /\ sweep.pc = "range"
  /\ sweep.pending = {}
  /\ sweep' = [sweep EXCEPT !.pc = "recv"]
  /\ UNCHANGED <<logVars, limiterVars, now, nEvents, timeout, sessions, sessTick, call, hist>>

\* The session store under one task that serves web requests, one task that
\* calls the store directly, the sweep and the clock.
MaxWebEvents == 4

InitWeb ==
  /\ InitWith({<<100, 10000>>})
  /\ \E t \in SessionTimeouts : NewSessionStore(t)
  /\ NewLog({<<"", "">>})

NextWeb ==
  \/ nEvents < MaxWebEvents
       /\ \E w \in StoreProcs, u \in Usernames, r \in RandOutcomes : Create(w, u, r)
  \/ \E w \in WebProcs : CreateStore(w)
  \/ nEvents < MaxWebEvents /\ \E w \in StoreProcs, id \in SessionIDs : Get(w, id)
  \/ \E w \in WebProcs : GetCheck(w)
  \/ \E w \in WebProcs : GetDelete(w)
  \/ nEvents < MaxWebEvents /\ \E w \in StoreProcs, id \in SessionIDs : Delete(w, id)
  \/ nEvents < MaxWebEvents
       /\ \E w \in HandlerProcs, rq \in LoginRequests, r \in RandOutcomes :
            HandleLoginSubmit(w, rq, r)
  \/ nEvents < MaxWebEvents
       /\ \E w \in HandlerProcs, rq \in LogoutRequests : HandleLogout(w, rq)
  \/ nEvents < MaxWebEvents
       /\ \E w \in HandlerProcs, rq \in AuthRequests : RequireAuth(w, rq)
  \/ nEvents < MaxWebEvents /\ \E d \in WebTickSteps : WebTick(d)
  \/ cleanupExpiredRecv
  \/ \E id \in sweep.pending : cleanupExpiredVisit(id)
  \/ cleanupExpiredDelete
  \/ cleanupExpiredEnd

SpecWeb == InitWeb /\ [][NextWeb]_vars

TypeOK ==
  /\ now \in Nat
  /\ Len(acq) = Len(heap)

\* --------------------------------------------------------------------
\* Properties
\* --------------------------------------------------------------------

\* the stored and the current level of bucket lim lie in 0..cap tokens
Within(lim, cap) ==
  /\ 0 <= lim.tokens /\ lim.tokens <= cap * Scale
  /\ 0 <= Tokens(lim, now) /\ Tokens(lim, now) <= cap * Scale

\* C1: bucket bound: in every reachable state the global bucket and every
\* per-key bucket (in the map or still held by a request) has
\* 0 <= tokens <= capacity, the capacity being the one the registry was
\* built with.
C1_BucketBound ==
  /\ Within(global, global.burst)
  /\ \A o \in DOMAIN heap : Within(heap[o], perIPBurst)

\* C1 witness: a per-key bucket that was acquired from after time had passed
\* and has since refilled in part, below its capacity.
C1_Witness ==
  \E o \in DOMAIN heap :
    /\ heap[o].last > 0
    /\ heap[o].tokens < Tokens(heap[o], now)
    /\ Tokens(heap[o], now) < perIPBurst * Scale

\* a step of the handler of request task p
HandlerStep(p) ==
  \/ \E r \in Requests : ServeHTTP(p, r)
  \/ getLimiter(p)
  \/ limiterAllow(p)

\* C2: global precedence: a request the global bucket rejected is answered
\* 429 in the step that rejected it, and no step of its handler looks up,
\* creates or changes a per-key bucket: the map and every per-key bucket,
\* also one with tokens available for that key, stay as they were.
C2_GlobalPrecedence ==
  [][\A p \in Procs :
       HandlerStep(p) /\ allowed'[p] = "globalReject"
         => /\ perIP' = perIP
            /\ heap' = heap
            /\ pc'[p] = "done"
            /\ status'[p] = StatusTooManyRequests
            /\ served'[p] = 0]_vars

\* C2 witness: the global bucket is empty and has rejected a request while
\* every key a request can carry has a per-key bucket with a token available.
C2_Witness ==
  /\ \E p \in Procs : pc[p] = "done" /\ allowed[p] = "globalReject"
  /\ ~AllowOk(global, now)
  /\ \A r \in Requests :
       /\ getIPAddress(r) \in DOMAIN perIP
       /\ AllowOk(heap[perIP[getIPAddress(r)]], now)

\* the capacity C = perIPReqPerMin/10 of the per-key buckets
PerKeyCapacity == perIPRate \div BurstDivisor

\* C3: burst admission: of the N calls a freshly created per-key bucket of
\* capacity C has received with no time elapsed since its creation, exactly
\* the first min(C, N) were admitted and the others rejected (the calls are
\* those that passed the global bucket).
C3_BurstAdmission ==
  \A o \in DOMAIN acq :
    acq[o].kind = "fresh"
      => /\ acq[o].admits = Min(PerKeyCapacity, acq[o].calls)
         /\ heap[o].tokens = (PerKeyCapacity - acq[o].admits) * Scale

\* C3 witness: a fresh bucket of capacity 10 has received 15 back-to-back
\* calls, admitted 10 and rejected 5.
C3_Witness ==
  \E o \in DOMAIN acq :
    /\ acq[o].kind = "fresh"
    /\ PerKeyCapacity = 10
    /\ acq[o].calls = 15
    /\ acq[o].admits = 10
    /\ pc["p1"] = "done" /\ allowed["p1"] = "ipReject"

\* the level tryAcquire refills bucket lim to, before it decides
Refilled(lim) == Min(lim.burst * Scale, lim.tokens + (now - lim.last) * lim.limit)

\* what tryAcquire on bucket lim, leaving it as after, must have done when it
\* returned admitted
Acquired(lim, after, admitted) ==
  /\ admitted <=> Refilled(lim) >= Scale
  /\ Tokens(after, now) = IF admitted THEN Refilled(lim) - Scale ELSE Refilled(lim)

\* C4: every tryAcquire the middleware makes, on the global bucket and on a
\* per-key bucket, refills the bucket to min(capacity, tokens + elapsed *
\* refillRate), admits if and only if that level is at least one token,
\* leaves the level one token lower when it admits and at the refilled value
\* when it rejects.
C4_TryAcquire ==
  [][\A p \in Procs :
       /\ (\E r \in Requests : ServeHTTP(p, r))
            => Acquired(global, global', allowed'[p] /= "globalReject")
       /\ limiterAllow(p)
            => Acquired(heap[limiter[p]], heap'[limiter[p]], allowed'[p] = "accept")]_vars

\* C4 witness: a per-key bucket that has refilled to part of a token since it
\* was last taken from, and a request that was rejected on its key.
C4_Witness ==
  /\ \E p \in Procs : pc[p] = "done" /\ allowed[p] = "ipReject"
  /\ \E o \in DOMAIN heap :
       /\ heap[o].last < now
       /\ 0 < Tokens(heap[o], now) /\ Tokens(heap[o], now) < Scale
       /\ acq[o].kind = "other"

C6_RejectedNotServed ==
  \A p \in Procs :
    /\ allowed[p] \in {"globalReject", "ipReject"}
         => pc[p] = "done" /\ status[p] = StatusTooManyRequests /\ served[p] = 0
    /\ allowed[p] = "accept"
         => pc[p] = "done" /\ status[p] /= StatusTooManyRequests /\ served[p] = 1
    /\ allowed[p] = "none" => served[p] = 0

\* C6 witness: one request rejected by its per-key bucket and answered 429,
\* and one accepted request whose wrapped handler has run once.
C6_Witness ==
  \E p, q \in Procs :
    /\ pc[p] = "done" /\ allowed[p] = "ipReject" /\ status[p] = StatusTooManyRequests
    /\ pc[q] = "done" /\ allowed[q] = "accept" /\ served[q] = 1

\* C7: eviction is harmless: every per-key decision made equals the decision
\* of the registry whose sweep never runs, for the same sequence of calls.
C7_EvictionHarmless ==
  \A p \in Procs :
    pc[p] = "done" /\ allowed[p] \in {"accept", "ipReject"}
      => ((allowed[p] = "accept") <=> refOk[p])

\* C8: the registry maps each key to one bucket, the global bucket is one
\* object, and requests for the same key that are between getLimiter and
\* Allow at the same time hold the same bucket.
C8_OneBucketPerKey ==
  /\ \A k \in DOMAIN perIP : perIP[k] \in DOMAIN heap
  /\ \A p, q \in Procs :
       pc[p] = "allow" /\ pc[q] = "allow" /\ ip[p] = ip[q]
         => limiter[p] = limiter[q]

\* C9: among the requests that arrive from one peer address (RemoteAddr)
\* within the same instant, the number admitted by the per-key stage never
\* exceeds the per-IP burst capacity, whatever headers they carry.
C9_PerPeerBound ==
  \A a \in RemoteAddrs : admittedNow[a] <= perIPBurst

\* C10: every bucket the registry constructs, per-key or global, has a
\* capacity of at least 1.
C10_CapacityAtLeastOne ==
  /\ perIPBurst >= 1
  /\ global.burst >= 1
  /\ \A o \in DOMAIN heap : heap[o].burst >= 1

\* C11: the sweep goroutine of the limiter is stoppable: once Stop has been
\* called, the goroutine of cleanupRoutine has returned or can still take a
\* step (it is never left waiting for a tick that cannot come).
C11_StopEndsSweep ==
  stopped => (cleanupAt = "returned" \/ ENABLED cleanupRoutineNext)

\* the calls of Get that have returned, made directly or by RequireAuth
GetDone(w) == call[w].pc = "done" /\ call[w].op \in {"Get", "RequireAuth"}

\* C12: Get never returns ok = true with a Session whose ExpiresAt is before
\* the clock value the call read, also while the expired entry is still in
\* the map because no sweep has removed it yet.
C12_NoExpiredReturned ==
  \A w \in WebProcs :
    GetDone(w) /\ call[w].ok => ~(call[w].session.ExpiresAt < call[w].at)

\* C12 witness: a Get found an entry in the map that had expired, with the
\* sweep still waiting to run, and returned not-found; another Get returned
\* a Session that had not expired.
C12_Witness ==
  \E w, v \in WebProcs :
    /\ GetDone(w) /\ call[w].loaded /\ ~call[w].ok /\ sessTick /\ sweep.pc = "recv"
    /\ GetDone(v) /\ call[v].ok /\ call[v].session.ExpiresAt > call[v].at

\* C13: a Get that finds an entry whose ExpiresAt is at or before the clock
\* value it reads, the instant ExpiresAt itself included, deletes the entry
\* and returns not-found.
C13_ExpiredAtBoundary ==
  \A w \in WebProcs :
    GetDone(w) =>
      /\ call[w].ok => ~(call[w].session.ExpiresAt <= call[w].at)
      /\ call[w].loaded /\ ~call[w].ok => call[w].removed

\* C14: for a session id that Create has returned (once) and that has not
\* been given to Delete since, a Get that returns before ExpiresAt returns
\* ok with the Username Create was given, and a Get that returns after
\* ExpiresAt returns not-found.
C14_Lifecycle ==
  \A w \in WebProcs :
    GetDone(w) =>
      /\ call[w].life = "live"
           => call[w].ok /\ call[w].session.Username = call[w].principal
      /\ call[w].life = "over" => ~call[w].ok

\* C14 witness: one Get returned the session before its expiry, a later one
\* returned not-found for a session whose time was over.
C14_Witness ==
  \E w, v \in WebProcs :
    /\ GetDone(w) /\ call[w].life = "live" /\ call[w].ok
    /\ call[w].session.Username = "admin"
    /\ GetDone(v) /\ call[v].life = "over" /\ ~call[v].ok /\ now > call[w].at

\* the calls of Create that have returned, made directly or by
\* HandleLoginSubmit
CreateDone(w) ==
  /\ call[w].pc = "done"
  /\ call[w].op \in {"Create", "HandleLoginSubmit"}
  /\ call[w].rand > 0

\* s carries a CSRF token that is not empty
HasCSRFToken(s) == "CSRFToken" \in DOMAIN s /\ s.CSRFToken /= << >>

\* C15: Create generates two tokens, a session id and a CSRF token, and
\* stores the CSRF token in the Session; every stored Session, and every
\* Session that Get returns, carries a CSRF token that is not empty.
C15_CsrfTokenStored ==
  /\ \A w \in WebProcs : CreateDone(w) /\ ~call[w].err => call[w].rand = 2
  /\ \A id \in DOMAIN sessions : HasCSRFToken(sessions[id])
  /\ \A w \in WebProcs : GetDone(w) /\ call[w].ok => HasCSRFToken(call[w].session)

\* the calls of Delete that have returned, made directly or by HandleLogout
DeleteDone(w) ==
  /\ call[w].pc = "done"
  /\ call[w].op \in {"Delete", "HandleLogout"}
  /\ call[w].sessionID /= << >>

\* C16: Delete of an id that is not in the map (never stored, or deleted
\* before) returns without an error and leaves the map as it was; an id
\* given to Delete is not in the map until Create stores it again, and a Get
\* of it that begins meanwhile returns not-found.
C16_DeleteIdempotent ==
  /\ \A w \in WebProcs :
       DeleteDone(w) => ~call[w].err /\ (~call[w].loaded => ~call[w].removed)
  /\ \A id \in DOMAIN hist : hist[id].deleted => id \notin DOMAIN sessions
  /\ \A w \in WebProcs : GetDone(w) /\ call[w].gone => ~call[w].ok

\* C16 witness: an id that Create had stored was deleted, then deleted once
\* more, and a Get of it that began after returned not-found.
C16_Witness ==
  \E w, v \in WebProcs :
    /\ DeleteDone(w) /\ ~call[w].loaded
    /\ hist[call[w].sessionID].creates = 1
    /\ GetDone(v) /\ call[v].sessionID = call[w].sessionID
    /\ call[v].gone /\ ~call[v].ok

\* C17: a delete decided on an expired Session, by Get or by the sweep, does
\* not remove a Session that Create stored under the same id after the
\* expired one was observed and that has not expired itself.
C17_NoStaleDelete ==
  [][/\ \A w \in WebProcs :
          /\ call[w].pc = "delete" /\ call'[w].pc = "done"
          /\ call[w].sessionID \in DOMAIN sessions
          /\ sessions[call[w].sessionID] /= call[w].session
          /\ ~Expired(sessions[call[w].sessionID], now)
          => /\ call[w].sessionID \in DOMAIN sessions'
             /\ sessions'[call[w].sessionID] = sessions[call[w].sessionID]
     /\ /\ sweep.pc = "delete" /\ sweep'.pc = "range"
        /\ sweep.key \in DOMAIN sessions
        /\ ~Expired(sessions[sweep.key], now)
        => /\ sweep.key \in DOMAIN sessions'
           /\ sessions'[sweep.key] = sessions[sweep.key]]_vars

\* C18: a Create whose read of the entropy source fails returns that error
\* and an empty id at once: it never reaches the Store, it reads the source
\* once, and HandleLoginSubmit answers such a Create with 500.
C18_EntropyFailure ==
  \A w \in WebProcs :
    call[w].randFailed =>
      /\ call[w].pc = "done"
      /\ call[w].err
      /\ call[w].sessionID = << >>
      /\ call[w].rand = 1
      /\ << >> \notin DOMAIN sessions
      /\ call[w].op = "HandleLoginSubmit" => call[w].status = StatusInternalServerError

\* C18 witness: with a session in the map, a login whose Create could not
\* read the entropy source was answered 500 and a direct Create returned the
\* error.
C18_Witness ==
  \E w, v \in WebProcs :
    /\ call[w].randFailed /\ call[w].op = "HandleLoginSubmit"
    /\ call[w].status = StatusInternalServerError
    /\ call[v].randFailed /\ call[v].op = "Create" /\ call[v].err
    /\ sessions /= << >>

\* C19: RequireAuth calls the protected handler only for a request whose
\* session_id cookie names a Session that Get reports found, which is one
\* that is in the map, has not expired and was not deleted by a logout;
\* every other request is answered 404 and the handler is not called.
C19_AuthGate ==
  \A w \in WebProcs :
    call[w].op = "RequireAuth" =>
      /\ call[w].next =
           (IF call[w].pc = "done" /\ call[w].req.cookie /= << >> /\ call[w].ok
            THEN 1 ELSE 0)
      /\ call[w].next = 1
           => /\ call[w].status = StatusOK
              /\ call[w].loaded
              /\ ~(call[w].session.ExpiresAt < call[w].at)
              /\ ~call[w].gone
      /\ call[w].pc = "done" /\ call[w].next = 0 => call[w].status = StatusNotFound

\* C19 witness: after a login at an earlier time, a request with the cookie
\* of that session has passed the gate while the direct caller has just
\* deleted another id.
C19_Witness ==
  \E w \in HandlerProcs, v \in StoreProcs :
    /\ call[w].op = "RequireAuth" /\ call[w].pc = "done"
    /\ call[w].next = 1 /\ call[w].session.Username = AuthUsername
    /\ call[w].at > 0
    /\ DeleteDone(v) /\ call[v].sessionID /= call[w].sessionID

\* C20: a login whose csrf_token form value differs from the csrf_token
\* cookie, or that has no such cookie, is answered 403 and creates no
\* session; a logout whose csrf_token form value is not the CSRF token of
\* the session (every request of LogoutRequests: the store issues none) is
\* answered 403 and deletes nothing.
C20_CsrfValidated ==
  \A w \in WebProcs :
    /\ /\ call[w].op = "HandleLoginSubmit"
       /\ (call[w].req.csrfCookie = "" \/ call[w].req.csrfForm /= call[w].req.csrfCookie)
       => /\ call[w].pc = "done"
          /\ call[w].status = StatusForbidden
          /\ call[w].rand = 0
    /\ /\ call[w].op = "HandleLogout"
       /\ call[w].loaded
       => /\ call[w].status = StatusForbidden
          /\ ~call[w].removed

\* ------------------------------------------------------------ request log
\* part_011 (internal/database): LogRequest, executeWithRetry,
\* isRetryableError, sanitizeInput; part_005 (internal/handler): ServeHTTP.

\* a continuation byte of UTF-8
IsCont(b) == b >= 128 /\ b <= 191

\* the rune range-over-string reads at byte i of s, and its width: an ASCII
\* byte; a well-formed sequence of 2, 3 or 4 bytes (shortest form, no
\* surrogate, at most 0x10FFFF); else RuneError of width 1
DecodeRune(s, i) ==
  LET b == s[i]
      has(k) == i + k <= Len(s) /\ \A j \in 1..k : IsCont(s[i + j])
      r2 == (b - 192) * 64 + (s[i + 1] - 128)
      r3 == (b - 224) * 4096 + (s[i + 1] - 128) * 64 + (s[i + 2] - 128)
      r4 == (b - 240) * 262144 + (s[i + 1] - 128) * 4096
              + (s[i + 2] - 128) * 64 + (s[i + 3] - 128)
      bad == [r |-> RuneError, width |-> 1]
  IN IF b < RuneSelf THEN [r |-> b, width |-> 1]
     ELSE IF b >= 194 /\ b <= 223
       THEN IF has(1) THEN [r |-> r2, width |-> 2] ELSE bad
     ELSE IF b >= 224 /\ b <= 239
       THEN IF has(2) /\ r3 >= 2048 /\ ~(r3 >= 55296 /\ r3 <= 57343)
              THEN [r |-> r3, width |-> 3] ELSE bad
     ELSE IF b >= 240 /\ b <= 244
       THEN IF has(3) /\ r4 >= 65536 /\ r4 <= 1114111
              THEN [r |-> r4, width |-> 4] ELSE bad
     ELSE bad

\* the UTF-8 bytes of rune r
EncodeRune(r) ==
  IF r < RuneSelf THEN <<r>>
  ELSE IF r < 2048 THEN <<192 + (r \div 64), 128 + (r % 64)>>
  ELSE IF r < 65536
    THEN <<224 + (r \div 4096), 128 + ((r \div 64) % 64), 128 + (r % 64)>>
  ELSE <<240 + (r \div 262144), 128 + ((r \div 4096) % 64),
         128 + ((r \div 64) % 64), 128 + (r % 64)>>

\* a mapping that lets DEL through
mappingBelowSpace(r) == IF r < 32 THEN -1 ELSE r

\* lines 170-175: the mapping given to strings.Map
mapping(r) == IF r < 32 \/ r = 127 THEN -1 ELSE r

\* strings.Map(mapping, s), from byte i on: every rune of s is mapped, a
\* negative result is dropped, any other is written in UTF-8 (a byte that
\* is not valid UTF-8 is read as RuneError and written as such)
RECURSIVE MapFrom(_, _)
MapFrom(s, i) ==
  IF i > Len(s) THEN << >>
  ELSE LET d == DecodeRune(s, i)
           r == mapping(d.r)
       IN (IF r >= 0 THEN EncodeRune(r) ELSE << >>) \o MapFrom(s, i + d.width)

Map(s) == MapFrom(s, 1)

\* a sanitizeInput that does not enforce the maximum length
sanitizeInputUncut(input, maxLen) == Map(input)

\* lines 168-183
sanitizeInput(input, maxLen) ==
  LET sanitized == Map(input)
  IN IF Len(sanitized) > maxLen THEN SubSeq(sanitized, 1, maxLen) ELSE sanitized

\* strings.Contains on texts
Contains(s, substr) ==
  \E i \in 0..(Len(s) - Len(substr)) : SubSeq(s, i + 1, i + Len(substr)) = substr

\* a classifier that finds every error retryable
isRetryableErrorAlways(err) == err /= << >>

\* a classifier that finds no error retryable
isRetryableErrorNever(err) == FALSE

\* lines 156-164
isRetryableError(err) ==
  IF err = << >> THEN FALSE
  ELSE \/ Contains(err, <<"database", "is", "locked">>)
       \/ Contains(err, <<"database", "table", "is", "locked">>)
       \/ Contains(err, <<"SQLITE_BUSY">>)

\* line 141: fmt.Errorf("failed to execute operation: %w", err)
ErrOperation(err) == <<"failed", "to", "execute", "operation", ":">> \o err

\* line 152: fmt.Errorf("failed to execute operation after %d retries", maxRetries)
ErrExhausted ==
  <<"failed", "to", "execute", "operation", "after", ToString(MaxRetries), "retries">>

\* a loop that makes one attempt fewer
MoreAttemptsShort(attempt) == attempt < MaxRetries

\* line 133: the loop condition
MoreAttempts(attempt) == attempt <= MaxRetries

\* a backoff that grows by the base delay: 10ms, 20ms, 30ms
BackoffLinear(attempt) == BackoffBase * (attempt + 1)

\* line 147: 10ms, 20ms, 40ms
Backoff(attempt) == BackoffBase * 2 ^ attempt

\* a handler that goes on whatever LogRequest returned (as the older
\* ServeHTTP of part_005, lines 125-128, does)
writeFailedNever(err) == FALSE

\* part_005 line 45: err != nil
writeFailed(err) == err /= << >>

\* a LogRequest that hands its arguments to the operation as they came
logBeginRaw(op, ipAddress, url) ==
  [NoWrite EXCEPT !.pc = "operation", !.op = op,
                  !.rawAddr = ipAddress, !.rawURL = url, !.before = Len(rows),
                  !.ipAddress = ipAddress, !.url = url]

\* LogRequest lines 119-123: the arguments are sanitized and the loop of
\* executeWithRetry is entered with attempt = 0
logBegin(op, ipAddress, url) ==
  [NoWrite EXCEPT !.pc = IF MoreAttempts(0) THEN "operation" ELSE "done",
                  !.err = IF MoreAttempts(0) THEN << >> ELSE ErrExhausted,
                  !.op = op, !.rawAddr = ipAddress, !.rawURL = url,
                  !.before = Len(rows),
                  !.ipAddress = sanitizeInput(ipAddress, AddrMaxLen),
                  !.url = sanitizeInput(url, URLMaxLen)]

\* executeWithRetry returns err to LogRequest, which returns it to its
\* caller; ServeHTTP (part_005 lines 45-66) answers 503 when it is not nil,
\* and else reports the request as logged and answers 404
logReturn(fr, err) ==
  LET back == [fr EXCEPT !.pc = "done", !.err = err,
                         !.rawAddr = << >>, !.rawURL = << >>]
  IN IF fr.op = "ServeHTTP"
       THEN IF writeFailed(err)
              THEN [back EXCEPT !.status = StatusServiceUnavailable]
              ELSE [back EXCEPT !.logged = TRUE, !.status = StatusNotFound]
       ELSE back

\* a direct call of LogRequest(ipAddress, url)
LogRequest(ipAddress, url) ==
  /\ wr.pc \in {"idle", "done"}
  /\ nEvents' = nEvents + 1
  /\ wr' = logBegin("LogRequest", ipAddress, url)
  /\ UNCHANGED <<limiterVars, webVars, now, rows, ba, concVars>>

\* part_005 lines 23-45: the catch-all handler receives a request whose
\* getIPAddress(r) is ipAddress and whose r.URL.String() is url, and calls
\* LogRequest
LogServeHTTP(ipAddress, url) ==
  /\ wr.pc \in {"idle", "done"}
  /\ nEvents' = nEvents + 1
  /\ wr' = logBegin("ServeHTTP", ipAddress, url)
  /\ UNCHANGED <<limiterVars, webVars, now, rows, ba, concVars>>

\* lines 124-126: the INSERT of the call wf, on table tbl, returning e
insertRow(tbl, wf, e) ==
  IF e = << >> THEN Append(tbl, [ip_address |-> wf.ipAddress, url |-> wf.url])
  ELSE tbl

\* lines 134-150, one pass of the loop up to its sleep, for the call wf
\* whose operation returned e: nil and an error that is not retryable end
\* the call, a retryable error leads to the sleep or, on the last attempt,
\* to the next test of the loop condition
operationReturn(wf, e) ==
  LET fr == [wf EXCEPT !.outcomes = Append(@, e),
                       !.rawAddr = << >>, !.rawURL = << >>]
  IN IF e = << >> THEN logReturn(fr, << >>)
     ELSE IF ~isRetryableError(e) THEN logReturn(fr, ErrOperation(e))
     ELSE IF wf.attempt < MaxRetries THEN [fr EXCEPT !.pc = "sleep"]
     ELSE IF MoreAttempts(wf.attempt + 1)
       THEN [fr EXCEPT !.attempt = @ + 1]
     ELSE logReturn([fr EXCEPT !.attempt = @ + 1], ErrExhausted)

\* lines 147-148 and the loop's attempt++, for the call wf
sleepReturn(wf) ==
  LET fr == [wf EXCEPT !.sleeps = Append(@, Backoff(wf.attempt)),
                       !.attempt = @ + 1]
  IN IF MoreAttempts(wf.attempt + 1)
       THEN [fr EXCEPT !.pc = "operation"]
       ELSE logReturn(fr, ErrExhausted)

\* the operation (the INSERT) is invoked and returns e
operation(e) ==
  /\ wr.pc = "operation"
  /\ rows' = insertRow(rows, wr, e)
  /\ wr' = operationReturn(wr, e)
  /\ UNCHANGED <<limiterVars, webVars, now, nEvents, ba, concVars>>

\* the backoff has been slept
Sleep ==
  /\ wr.pc = "sleep"
  /\ wr' = sleepReturn(wr)
  /\ UNCHANGED <<limiterVars, webVars, now, nEvents, rows, ba, concVars>>

\* calls of LogRequest and of the handler
MaxLogEvents == 2

InitLog ==
  /\ InitWith({<<100, 10000>>})
  /\ NewSessionStore(HandlerTimeout)
  /\ NewLog({<<"", "">>})

NextLog ==
  \/ /\ nEvents < MaxLogEvents
     /\ \E a \in AddrInputs, u \in LogURLInputs : LogRequest(a, u)
  \/ /\ nEvents < MaxLogEvents
     /\ \E a \in AddrInputs, u \in LogURLInputs : LogServeHTTP(a, u)
  \/ \E e \in OpOutcomes : operation(e)
  \/ Sleep

SpecLog == InitLog /\ [][NextLog]_vars

\* One call of LogRequest on an empty table, for every address and every URL
\* of up to MaxInputLen bytes.
NextSan ==
  \/ /\ wr.pc = "idle"
     /\ \E a \in AddrInputs, u \in URLInputs : LogRequest(a, u)
  \/ \E e \in OpOutcomes : operation(e)
  \/ Sleep

SpecSan == InitLog /\ [][NextSan]_vars

\* the errors the specification calls transient (contention signatures);
\* every other error of the operation is permanent
TransientErrors == {ErrLocked, ErrTableLocked, ErrBusy}
AllTransient(o) == \A i \in 1..Len(o) : o[i] \in TransientErrors
Last(o) == o[Len(o)]
Front(o) == SubSeq(o, 1, Len(o) - 1)

\* C21: while every invocation so far has failed with a transient error and
\* fewer than MaxRetries + 1 invocations were made, the writer goes on to
\* another invocation; and once an invocation succeeds, which then is
\* invocation k <= MaxRetries + 1 after k - 1 transient failures, the writer
\* makes no further invocation and returns success (nil), with the row
\* inserted.
C21_RetrySuccess ==
  wr.pc /= "idle" =>
    /\ AllTransient(wr.outcomes) /\ Len(wr.outcomes) < MaxRetries + 1
         => wr.pc \in {"operation", "sleep"}
    /\ wr.outcomes /= << >> /\ Last(wr.outcomes) = << >>
         => /\ wr.pc = "done"
            /\ wr.err = << >>
            /\ Len(wr.outcomes) <= MaxRetries + 1
            /\ AllTransient(Front(wr.outcomes))
            /\ Len(rows) = wr.before + 1
            /\ Last(rows) = [ip_address |-> wr.ipAddress, url |-> wr.url]

\* C21 witness: transient failures on attempts 1 and 2, success on attempt 3:
\* three invocations and nil returned.
C21_Witness ==
  /\ wr.pc = "done"
  /\ Len(wr.outcomes) = 3
  /\ wr.outcomes[1] \in TransientErrors
  /\ wr.outcomes[2] \in TransientErrors
  /\ wr.outcomes[3] = << >>
  /\ wr.err = << >>
  /\ wr.sleeps = <<10, 20>>

\* C22: the operation is never invoked more than MaxRetries + 1 times; when
\* it has failed with a transient error MaxRetries + 1 times the writer has
\* returned, with the "exhausted retries" error and nothing inserted; the
\* writer returns that error only then, so a writer that returned after a
\* permanent failure returned another error.
C22_RetryExhaustion ==
  /\ Len(wr.outcomes) <= MaxRetries + 1
  /\ wr.pc = "done" /\ wr.err = ErrExhausted
       => Len(wr.outcomes) = MaxRetries + 1 /\ AllTransient(wr.outcomes)
  /\ AllTransient(wr.outcomes) /\ Len(wr.outcomes) = MaxRetries + 1
       => /\ wr.pc = "done"
          /\ wr.err = ErrExhausted
          /\ Len(rows) = wr.before
  /\ wr.pc = "done" /\ wr.outcomes /= << >> /\ ~AllTransient(wr.outcomes)
       => wr.err /= ErrExhausted

\* C22 witness: four transient failures, the exhausted error returned after
\* backoffs of 10, 20 and 40 ms.
C22_Witness ==
  /\ wr.pc = "done"
  /\ Len(wr.outcomes) = MaxRetries + 1
  /\ AllTransient(wr.outcomes)
  /\ wr.err = ErrExhausted
  /\ wr.sleeps = <<10, 20, 40>>

\* C23: when an invocation has failed with an error that is not transient,
\* the writer has returned that error (wrapped), no invocation and no sleep
\* followed it, and nothing was inserted; when it was the first invocation,
\* it is the only one.
C23_NoRetryOnPermanent ==
  wr.outcomes /= << >> /\ Last(wr.outcomes) \notin TransientErrors \cup {<< >>}
    => /\ wr.pc = "done"
       /\ wr.err = ErrOperation(Last(wr.outcomes))
       /\ AllTransient(Front(wr.outcomes))
       /\ Len(wr.sleeps) = Len(wr.outcomes) - 1
       /\ Len(rows) = wr.before
       /\ wr.outcomes[1] \notin TransientErrors => Len(wr.outcomes) = 1

\* C23 witness: the first invocation failed with a permanent error and the
\* writer returned it without a sleep.
C23_Witness ==
  /\ wr.pc = "done"
  /\ wr.outcomes = <<ErrDiskFull>>
  /\ wr.err = ErrOperation(ErrDiskFull)
  /\ wr.sleeps = << >>

\* the characters (code points) of the text s, as range-over-string reads them
RECURSIVE RunesFrom(_, _)
RunesFrom(s, i) ==
  IF i > Len(s) THEN << >>
  ELSE LET d == DecodeRune(s, i) IN <<d.r>> \o RunesFrom(s, i + d.width)

Runes(s) == RunesFrom(s, 1)

IsControl(r) == r < 32 \/ r = 127
NotControl(r) == ~IsControl(r)
Take(s, n) == SubSeq(s, 1, IF Len(s) <= n THEN Len(s) ELSE n)

\* s with its control characters deleted, then cut to its first n characters
Sanitized(s, n) == Take(SelectSeq(Runes(s), NotControl), n)

\* LogRequest has sanitized its arguments and has not yet invoked the operation
JustSanitized == wr.pc = "operation" /\ wr.outcomes = << >>

\* C24: the sanitized address and URL are the characters of the arguments
\* with every character below 0x20 and 0x7F deleted, cut to the first maxLen
\* characters; they contain no control character, are no longer than maxLen,
\* are empty for empty arguments; "/test\n\r\x00path" under the URL maximum
\* of the source becomes "/testpath"; and what is inserted is the sanitized
\* pair.
C24_Sanitization ==
  /\ JustSanitized
       => /\ Runes(wr.url) = Sanitized(wr.rawURL, URLMaxLen)
          /\ Runes(wr.ipAddress) = Sanitized(wr.rawAddr, AddrMaxLen)
          /\ \A i \in 1..Len(wr.url) : NotControl(wr.url[i])
          /\ \A i \in 1..Len(wr.ipAddress) : NotControl(wr.ipAddress[i])
          /\ Len(wr.url) <= URLMaxLen /\ Len(wr.ipAddress) <= AddrMaxLen
          /\ wr.rawURL = << >> => wr.url = << >>
  /\ sanitizeInput(TestURL, 2048) = TestURLSanitized
  /\ \A i \in 1..Len(rows) :
       /\ Len(rows[i].url) <= URLMaxLen
       /\ \A j \in 1..Len(rows[i].url) : NotControl(rows[i].url[j])

\* the UTF-8 text of a sequence of characters
RECURSIVE Text(_)
Text(rs) == IF rs = << >> THEN << >> ELSE EncodeRune(Head(rs)) \o Text(Tail(rs))

\* the text s with its control characters deleted, not yet cut
Stripped(s) == Text(SelectSeq(Runes(s), NotControl))

WriteFailedPermanent ==
  wr.outcomes /= << >> /\ Last(wr.outcomes) \notin TransientErrors \cup {<< >>}
WriteExhausted == Len(wr.outcomes) = MaxRetries + 1 /\ AllTransient(wr.outcomes)
WriteSucceeded == wr.outcomes /= << >> /\ Last(wr.outcomes) = << >>

\* C26: when the write of the logging handler has failed, permanently or
\* with its retries exhausted, the handler has answered 503 and has not
\* reported the request as logged; it has given its normal answer (404), or
\* reported the request as logged, only after the write succeeded and the
\* row was inserted; and until the write ends it has answered nothing.
C26_WriteFailureAnswered ==
  wr.op = "ServeHTTP" =>
    /\ WriteFailedPermanent \/ WriteExhausted
         => /\ wr.pc = "done"
            /\ wr.status = StatusServiceUnavailable
            /\ ~wr.logged
            /\ Len(rows) = wr.before
    /\ wr.status = StatusNotFound \/ wr.logged
         => /\ wr.pc = "done"
            /\ WriteSucceeded
            /\ wr.status = StatusNotFound /\ wr.logged
            /\ Len(rows) = wr.before + 1
            /\ Last(rows) = [ip_address |-> wr.ipAddress, url |-> wr.url]
    /\ wr.pc /= "done" => wr.status = 0 /\ ~wr.logged
    /\ wr.pc = "done" => wr.status \in {StatusNotFound, StatusServiceUnavailable}

\* C26 witness: the handler answered 503 after four transient failures.
C26_Witness ==
  /\ wr.op = "ServeHTTP"
  /\ wr.pc = "done"
  /\ WriteExhausted
  /\ wr.status = StatusServiceUnavailable
  /\ ~wr.logged

\* ---------------------------------------------------------------- BasicAuth
\* internal/middleware/auth.go.

\* r.BasicAuth(): the credentials of an Authorization header of the form
\* Basic user:pass (base64 in the request, decoded here), ok = FALSE for no
\* header and for any other form
ParseBasicAuth(header) ==
  IF Len(header) = 4 /\ header[1] = "Basic" /\ header[3] = ":"
    THEN [user |-> header[2], pass |-> header[4], ok |-> TRUE]
    ELSE [user |-> "", pass |-> "", ok |-> FALSE]

\* subtle.ConstantTimeCompare
ConstantTimeCompare(x, y) == IF x = y THEN 1 ELSE 0

\* a test that rejects only when both comparisons fail
MismatchBoth(userMatch, passMatch) == ~userMatch /\ ~passMatch

\* line 28: !userMatch || !passMatch
Mismatch(userMatch, passMatch) == ~userMatch \/ ~passMatch

\* lines 11-34 and unauthorized (lines 38-43): one request with the given
\* Authorization header passes the middleware; next = 1 when
\* next.ServeHTTP was called, else status = 401
BasicAuth(header) ==
  /\ nEvents' = nEvents + 1
  /\ LET cred == ParseBasicAuth(header)
         userMatch == ConstantTimeCompare(cred.user, ba.username) = 1
         passMatch == ConstantTimeCompare(cred.pass, ba.password) = 1
         through == [ba EXCEPT !.pc = "done", !.header = header, !.status = 0,
                               !.next = 1]
         unauthorized == [ba EXCEPT !.pc = "done", !.header = header,
                                    !.status = StatusUnauthorized, !.next = 0]
     IN ba' = IF ba.username = "" \/ ba.password = "" THEN through
              ELSE IF ~cred.ok THEN unauthorized
              ELSE IF Mismatch(userMatch, passMatch) THEN unauthorized
              ELSE through
  /\ UNCHANGED <<limiterVars, webVars, now, rows, wr, concVars>>

\* requests to the endpoints behind BasicAuth
MaxAuthEvents == 3

InitAuth ==
  /\ InitWith({<<100, 10000>>})
  /\ NewSessionStore(HandlerTimeout)
  /\ NewLog(BasicAuthConfigs)

NextAuth ==
  /\ nEvents < MaxAuthEvents
  /\ \E h \in AuthorizationHeaders : BasicAuth(h)

SpecAuth == InitAuth /\ [][NextAuth]_vars

\* C27: with a username and a password configured, the wrapped handler was
\* called only for a request whose header holds Basic credentials equal to
\* both, and every other request was answered 401 without a call of the
\* handler; with neither configured every request was passed through.
C27_BasicAuthGate ==
  ba.pc = "done" =>
    LET valid == ba.header = <<"Basic", ba.username, ":", ba.password>>
    IN /\ ba.username /= "" /\ ba.password /= ""
            => /\ ba.next = 1 <=> valid
               /\ ~valid => ba.status = StatusUnauthorized /\ ba.next = 0
               /\ valid => ba.status = 0
       /\ ba.username = "" /\ ba.password = ""
            => ba.next = 1 /\ ba.status = 0

\* C27 witness: with admin/secret configured, a request with the right
\* username and a wrong password was answered 401.
C27_Witness ==
  /\ ba.pc = "done"
  /\ ba.username = "admin" /\ ba.password = "secret"
  /\ ba.header = <<"Basic", "admin", ":", "guess">>
  /\ ba.status = StatusUnauthorized
  /\ ba.next = 0

\* ------------------------------------------------- the limiter's mutexes
\* The same middleware and sweep as above, with every mutex taken and
\* released in a step of its own: rl.mu (getLimiter, cleanupRoutine) and the
\* mutex inside each limiter object, which Allow and Tokens hold for the
\* length of the call.

\* the limiter objects whose mutex h holds
Held(h) == {b \in DOMAIN bmu : bmu[b] = h}

\* line 81: a request arrives at task p, which goes on to rl.global.Allow()
lockServe(p, r) ==
  /\ pc[p] \in {"idle", "done"}
  /\ nEvents' = nEvents + 1
  /\ pc' = [pc EXCEPT ![p] = "gLock"]
  /\ req' = [req EXCEPT ![p] = r]
  /\ ip' = [ip EXCEPT ![p] = getIPAddress(r)]
  /\ status' = [status EXCEPT ![p] = 0]
  /\ served' = [served EXCEPT ![p] = 0]
  /\ allowed' = [allowed EXCEPT ![p] = "none"]
  /\ limiter' = [limiter EXCEPT ![p] = 0]
  /\ UNCHANGED <<logVars, webVars, cfgVars, global, perIP, heap, mu, pending,
                 clockVars, stopped, bmu, fresh, histVars>>

\* Allow enters: task p takes the mutex of the global limiter (line 84) or
\* of the limiter getLimiter returned (line 95)
allowLock(p) ==
  /\ pc[p] \in {"gLock", "lLock"}
  /\ LET b == IF pc[p] = "gLock" THEN 0 ELSE limiter[p]
     IN /\ b \notin DOMAIN bmu
        /\ bmu' = MapPut(bmu, b, p)
  /\ pc' = [pc EXCEPT ![p] = IF pc[p] = "gLock" THEN "gAllow" ELSE "lAllow"]
  /\ UNCHANGED <<logVars, webVars, cfgVars, global, perIP, heap, mu, pending,
                 clockVars, stopped, nEvents, req, ip, limiter, status, served,
                 allowed, fresh, histVars>>

\* lines 84-91: rl.global.Allow() decides and releases its mutex
globalAllowUnlock(p) ==
  /\ pc[p] = "gAllow"
  /\ global' = globalAllow(global)
  /\ bmu' = MapDelete(bmu, 0)
  /\ IF AllowOk(global, now)
       THEN /\ pc' = [pc EXCEPT ![p] = "muLock"]
            /\ UNCHANGED <<req, ip, limiter, status, served, allowed, fresh>>
       ELSE Answered(p, StatusTooManyRequests, 0, "globalReject")
  /\ UNCHANGED <<logVars, webVars, cfgVars, perIP, heap, mu, pending, clockVars,
                 stopped, nEvents, histVars>>

\* line 66: rl.mu.Lock()
muLock(p) ==
  /\ pc[p] = "muLock"
  /\ mu = ""
  /\ mu' = p
  /\ pc' = [pc EXCEPT ![p] = "lookup"]
  /\ UNCHANGED <<logVars, webVars, cfgVars, global, perIP, heap, pending,
                 clockVars, stopped, bmu, nEvents, req, ip, limiter, status,
                 served, allowed, fresh, histVars>>

\* a getLimiter that returns with rl.mu still held by its caller
muKept(p) == p

\* line 67: defer rl.mu.Unlock() -- rl.mu is free when getLimiter returns
muReturned(p) == ""

\* lines 69-75: the lookup under rl.mu, and the return, which releases it
lookupUnlock(p) ==
  /\ pc[p] = "lookup"
  /\ mu = p
  /\ IF ip[p] \in DOMAIN perIP
       THEN /\ limiter' = [limiter EXCEPT ![p] = perIP[ip[p]]]
            /\ UNCHANGED <<perIP, heap>>
       ELSE /\ heap' = Append(heap, getLimiterNew)
            /\ perIP' = MapPut(perIP, ip[p], Len(heap) + 1)
            /\ limiter' = [limiter EXCEPT ![p] = Len(heap) + 1]
  /\ mu' = muReturned(p)
  /\ pc' = [pc EXCEPT ![p] = "lLock"]
  /\ UNCHANGED <<logVars, webVars, cfgVars, global, pending, clockVars, stopped,
                 bmu, nEvents, req, ip, status, served, allowed, fresh, histVars>>

\* lines 95-105: limiter.Allow() decides and releases its mutex; the request
\* is answered
limiterAllowUnlock(p) ==
  LET lim == heap[limiter[p]]
      ok == AllowOk(lim, now)
  IN
  /\ pc[p] = "lAllow"
  /\ heap' = [heap EXCEPT ![limiter[p]] = perIPAllow(lim)]
  /\ bmu' = MapDelete(bmu, limiter[p])
  /\ IF ok THEN Answered(p, StatusNotFound, 1, "accept")
           ELSE Answered(p, StatusTooManyRequests, 0, "ipReject")
  /\ UNCHANGED <<logVars, webVars, cfgVars, global, perIP, mu, pending, clockVars,
                 stopped, nEvents, histVars>>

\* line 51, under rl.mu: limiter.Tokens() enters and takes the mutex of the
\* limiter of key k
tokensLock(k) ==
  /\ mu = "cleanup"
  /\ k \in pending
  /\ Held("cleanup") = {}
  /\ perIP[k] \notin DOMAIN bmu
  /\ bmu' = MapPut(bmu, perIP[k], "cleanup")
  /\ UNCHANGED <<logVars, webVars, cfgVars, global, perIP, heap, mu, pending,
                 clockVars, stopped, nEvents, procVars, histVars>>

\* lines 51-53: Tokens() returns, releasing the mutex, and the entry of k is
\* deleted when its bucket is full
tokensUnlock(k) ==
  /\ mu = "cleanup"
  /\ k \in pending
  /\ perIP[k] \in Held("cleanup")
  /\ bmu' = MapDelete(bmu, perIP[k])
  /\ pending' = pending \ {k}
  /\ perIP' = IF cleanupIdle(heap[perIP[k]]) THEN MapDelete(perIP, k) ELSE perIP
  /\ UNCHANGED <<logVars, webVars, cfgVars, global, heap, mu, clockVars, stopped,
                 nEvents, procVars, histVars>>

\* the steps that take a running admit call or a running sweep further
lockProgress ==
  \/ \E p \in Procs : allowLock(p)
  \/ \E p \in Procs : globalAllowUnlock(p)
  \/ \E p \in Procs : muLock(p)
  \/ \E p \in Procs : lookupUnlock(p)
  \/ \E p \in Procs : limiterAllowUnlock(p)
  \/ \E k \in pending : tokensLock(k)
  \/ \E k \in pending : tokensUnlock(k)
  \/ cleanupUnlock

\* requests received plus clock steps taken
MaxLockEvents == 4

LockRequests == {Request(<<"a", ":", "1">>, << >>, << >>),
                 Request(<<"b", ":", "1">>, << >>, << >>)}

NextLock ==
  \/ nEvents < MaxLockEvents /\ \E p \in Procs, r \in LockRequests : lockServe(p, r)
  \/ \E p \in Procs : allowLock(p)
  \/ \E p \in Procs : globalAllowUnlock(p)
  \/ \E p \in Procs : muLock(p)
  \/ \E p \in Procs : lookupUnlock(p)
  \/ \E p \in Procs : limiterAllowUnlock(p)
  \/ nEvents < MaxLockEvents /\ \E d \in TickSteps : Tick(d)
  \/ cleanupLock
  \/ \E k \in pending : tokensLock(k)
  \/ \E k \in pending : tokensUnlock(k)
  \/ cleanupUnlock

\* 20 requests per minute per IP (burst 2), 10 per minute in all (burst 1)
InitLock ==
  InitWith({<<20, 10>>}) /\ NewSessionStore(HandlerTimeout) /\ NewLog({<<"", "">>})

SpecLock == InitLock /\ [][NextLock]_vars

\* C28: a task in an admit call never holds the mutex of the global bucket
\* together with the mutex of a per-key bucket; it holds neither the global
\* bucket's mutex nor anything else of the global check once it has gone on
\* to the per-key lookup; it does not hold the registry's rl.mu when it
\* calls or runs Allow on the per-key bucket; and whenever an admit call or
\* a sweep is under way, some step of one of them can be taken (no
\* deadlock).
C28_NoLockNesting ==
  /\ \A p \in Procs :
       /\ ~(0 \in Held(p) /\ Held(p) /= {0})
       /\ pc[p] \in {"muLock", "lookup", "lLock", "lAllow"} => Held(p) \subseteq {limiter[p]} \ {0}
       /\ pc[p] \in {"muLock", "lookup"} => Held(p) = {}
       /\ pc[p] \in {"gLock", "gAllow", "lLock", "lAllow"} => mu /= p
  /\ (\E p \in Procs : pc[p] \notin {"idle", "done"}) \/ mu = "cleanup"
       => ENABLED lockProgress

\* C28 witness: the sweep holds rl.mu and waits for the mutex of a bucket
\* that a task holds inside Allow, while the other task waits for rl.mu.
C28_Witness ==
  /\ mu = "cleanup"
  /\ \E k \in pending : perIP[k] \in DOMAIN bmu /\ bmu[perIP[k]] = "p1"
  /\ pc["p1"] = "lAllow"
  /\ pc["p2"] = "muLock"

\* C29: a step of the sweep that removes a key from the map removes a
\* limiter that was not used in the last CleanupInterval seconds: when a
\* request was admitted on it (its stored level is below its burst, and
\* last is the time of the latest admission), that was CleanupInterval
\* seconds ago or more.
C29_SweepOnlyInactive ==
  [][\A k \in DOMAIN perIP :
       k \notin DOMAIN perIP'
         => LET lim == heap[perIP[k]]
            IN lim.tokens < lim.burst * Scale => now - lim.last >= CleanupInterval]_vars

\* C30: the bucket of a key k is changed, or taken out of the map, only by a
\* step of an admit call for k itself or by the sweep: no step of an admit
\* call for another key, whatever its outcome, changes the entry of k or the
\* level of its bucket; and a call that is about to ask its bucket holds no
\* bucket that the map keeps for another key, so its decision is made on a
\* bucket that calls for other keys have left alone.
C30_SeparateLimits ==
  [][/\ \A p \in Procs :
          pc[p] = "allow" => \A k \in DOMAIN perIP \ {ip[p]} : perIP[k] /= limiter[p]
     /\ \A k \in DOMAIN perIP :
          /\ pending' = pending
          /\ ~\E p \in Procs : /\ pc[p] \in {"getLimiter", "allow"}
                               /\ pc'[p] /= pc[p]
                               /\ ip[p] = k
          => /\ k \in DOMAIN perIP'
             /\ perIP'[k] = perIP[k]
             /\ heap'[perIP[k]] = heap[perIP[k]]]_vars

\* C30 witness: key a's bucket (capacity 1) is exhausted and a request for a
\* was rejected by it, while the bucket of key b, created since, has
\* admitted its request.
C30_Witness ==
  /\ perIPBurst = 1
  /\ DOMAIN perIP = {<<"a">>, <<"b">>}
  /\ heap[perIP[<<"a">>]].tokens < Scale
  /\ pc["p1"] = "done" /\ allowed["p1"] = "ipReject"
  /\ pc["p2"] = "done" /\ allowed["p2"] = "accept"
  /\ heap[perIP[<<"b">>]].last = now

\* ------------------------------------------------- session store: expiry
\* a call of Get, directly or by RequireAuth, begins for id in this step
GetBegins(w, id) ==
  /\ call[w].pc \in {"idle", "done"}
  /\ call'[w] /= call[w]
  /\ call'[w].op \in {"Get", "RequireAuth"}
  /\ call'[w].sessionID = id
\* Create stores a Session under id in this step
CreateStores(id) ==
  \E w \in WebProcs : call[w].pc = "store" /\ call'[w].pc = "done" /\ call[w].sessionID = id
\* a Get has returned not-found for id because its Session had expired, and
\* Create has not stored under id since
Lapsed(id) == id \in DOMAIN hist /\ hist[id].lapsed

\* C31: once a Get of id has returned not-found because the Session had
\* expired, every Get of id that begins later returns not-found at once,
\* until a Create stores under id again; and no step other than the Store
\* of a Create puts a Session under an id or changes the Session (and with
\* it the ExpiresAt) that is stored under an id.
C31_ExpiredStaysAbsent ==
  [][\A id \in SessionIDs :
       /\ \A w \in WebProcs :
            Lapsed(id) /\ GetBegins(w, id) =>
              call'[w].pc = "done" /\ ~call'[w].ok /\ call'[w].session = NoSession
       /\ Lapsed(id) => id \notin DOMAIN sessions
       /\ (id \in DOMAIN sessions' /\
           (id \notin DOMAIN sessions \/ sessions'[id] /= sessions[id]))
          => CreateStores(id)]_vars

\* a Get of id returns not-found at once although Create returned id, Delete
\* was not called for it, and an earlier Get of the same task (the only one
\* that has run a call) found its Session expired
C31_Witness ==
  \E w \in WebProcs :
    /\ GetDone(w) /\ ~call[w].ok /\ ~call[w].loaded /\ ~call[w].gone
    /\ Lapsed(call[w].sessionID)
    /\ hist[call[w].sessionID].creates = 1
    /\ ~hist[call[w].sessionID].deleted
    /\ \A v \in WebProcs \ {w} : call[v].pc = "idle"

\* ------------------------------------- session store: one caller and sweep
\* One task calls Create, Get and Delete one after the other, the clock
\* advances, and cleanupExpired runs at any point between and within the
\* calls.
MaxSweepEvents == 4

NextSweep ==
  \/ nEvents < MaxSweepEvents
       /\ \E w \in StoreProcs, u \in Usernames, r \in RandOutcomes : Create(w, u, r)
  \/ \E w \in StoreProcs : CreateStore(w)
  \/ nEvents < MaxSweepEvents /\ \E w \in StoreProcs, id \in SessionIDs : Get(w, id)
  \/ \E w \in StoreProcs : GetCheck(w)
  \/ \E w \in StoreProcs : GetDelete(w)
  \/ nEvents < MaxSweepEvents /\ \E w \in StoreProcs, id \in SessionIDs : Delete(w, id)
  \/ nEvents < MaxSweepEvents /\ \E d \in WebTickSteps : WebTick(d)
  \/ cleanupExpiredRecv
  \/ \E id \in sweep.pending : cleanupExpiredVisit(id)
  \/ cleanupExpiredDelete
  \/ cleanupExpiredEnd

SpecSweep == InitWeb /\ [][NextSweep]_vars

\* what Get(id) returns at clock value t from a store that is never swept,
\* after the calls of history h: the Session last stored under id, unless
\* Delete was called since or t is after its ExpiresAt (a Session that a Get
\* deleted lazily was expired then, and is expired at every later t)
getUnswept(h, id, t) ==
  IF id \in DOMAIN h /\ h[id].creates >= 1 /\ ~h[id].deleted /\ ~Expired(h[id].session, t)
  THEN [session |-> h[id].session, ok |-> TRUE]
  ELSE [session |-> NoSession, ok |-> FALSE]

\* C32: for every sequence of Create, Get and Delete calls and passages of
\* time, with the sweep running at any points, every Get returns what it
\* returns from a store that is never swept; and the sweep's delete never
\* removes a Session whose ExpiresAt is not yet passed.
C32_SweepDecoupled ==
  [][/\ \A w \in StoreProcs :
          GetDone(w)' =>
            /\ call'[w].ok = getUnswept(hist', call'[w].sessionID, call'[w].at).ok
            /\ call'[w].session = getUnswept(hist', call'[w].sessionID, call'[w].at).session
     /\ /\ sweep.pc = "delete" /\ sweep'.pc = "range"
        /\ sweep.key \in DOMAIN sessions
        => Expired(sessions[sweep.key], now)]_vars

\* ------------------------------------ session store: the sweep keeps going
\* One task makes up to MaxLiveEvents calls of the store; the clock and the
\* ticker of cleanupExpired go on for ever.  The calls begin while
\* now + timeout < LiveHorizon, so every ExpiresAt is below LiveHorizon and
\* the clock value is kept only up to LiveHorizon: later the ticker still
\* fires and now stands for every later instant.
MaxLiveEvents == 3
LiveHorizon == SweepInterval + SweepInterval

\* d seconds pass, as in WebTick; the calls are counted, the clock steps are
\* not
livePasses(d) ==
  /\ now < LiveHorizon
  /\ now' = now + d
  /\ sessTick' = (sessTick \/ (now + d) \div SweepInterval > now \div SweepInterval)
  /\ UNCHANGED <<logVars, limiterVars, nEvents, timeout, sessions, sweep, call, hist>>

\* session.go lines 75-78: the ticker fires once more, after LiveHorizon
tickerFires ==
  /\ now >= LiveHorizon
  /\ sessTick' = TRUE
  /\ UNCHANGED <<logVars, limiterVars, now, nEvents, timeout, sessions, sweep, call, hist>>

LiveTick ==
  \/ \E d \in WebTickSteps : livePasses(d)
  \/ tickerFires

cleanupExpiredStep ==
  \/ cleanupExpiredRecv
  \/ \E id \in sweep.pending : cleanupExpiredVisit(id)
  \/ cleanupExpiredDelete
  \/ cleanupExpiredEnd

LiveCalls == nEvents < MaxLiveEvents /\ now + timeout < LiveHorizon

NextLive ==
  \/ LiveCalls /\ \E w \in StoreProcs, u \in Usernames, r \in RandOutcomes : Create(w, u, r)
  \/ \E w \in StoreProcs : CreateStore(w)
  \/ LiveCalls /\ \E w \in StoreProcs, id \in SessionIDs : Get(w, id)
  \/ \E w \in StoreProcs : GetCheck(w)
  \/ \E w \in StoreProcs : GetDelete(w)
  \/ LiveCalls /\ \E w \in StoreProcs, id \in SessionIDs : Delete(w, id)
  \/ LiveTick
  \/ cleanupExpiredStep

\* the ticker of cleanupExpired is never stopped and its goroutine runs
\* `for range ticker.C` until the process ends: both keep taking steps
SpecLive ==
  /\ InitWeb
  /\ [][NextLive]_vars
  /\ WF_vars(LiveTick)
  /\ WF_vars(cleanupExpiredStep)

\* C33: as long as the ticker keeps firing and the sweep keeps running,
\* every Session that is in the map is eventually out of the map; so a
\* Session that was created and is never read or deleted again, which only
\* the sweep can take out, is eventually removed by the sweep.
C33_AbandonedRemoved ==
  \A id \in SessionIDs : (id \in DOMAIN sessions) ~> (id \notin DOMAIN sessions)

\* the only call made was a Create; its Session expired and the sweep has
\* taken it out of the map
C33_Witness ==
  \E w \in StoreProcs :
    /\ call[w].pc = "done" /\ call[w].op = "Create" /\ ~call[w].err
    /\ hist[call[w].sessionID].creates = 1
    /\ ~Lapsed(call[w].sessionID)
    /\ Expired(hist[call[w].sessionID].session, now)
    /\ call[w].sessionID \notin DOMAIN sessions
    /\ sweep.pc = "recv"

\* ------------------------------------------------ request log: the backoff
\* the delays of the retries, in milliseconds
BackoffSchedule == <<10, 20, 40>>

\* C34: the writer sleeps only between two attempts, after an attempt that
\* failed with a transient error: every attempt but the first follows a
\* sleep, the delay before retry n is 10 ms * 2^(n-1) (10, 20, 40), a call
\* that has returned has slept once less than it has made attempts (so not
\* after a success, a permanent error or the last failed attempt), and
\* there are at most 3 retries, 4 attempts.
C34_BackoffSchedule ==
  /\ Len(wr.outcomes) <= MaxRetries + 1
  /\ Len(wr.sleeps) <= MaxRetries
  /\ \A n \in 1..Len(wr.sleeps) :
       /\ wr.sleeps[n] = BackoffBase * 2 ^ (n - 1)
       /\ wr.sleeps[n] = BackoffSchedule[n]
       /\ n <= Len(wr.outcomes) /\ wr.outcomes[n] \in TransientErrors
  /\ wr.pc = "idle" => wr.sleeps = << >> /\ wr.outcomes = << >>
  /\ wr.pc = "operation" => Len(wr.sleeps) = Len(wr.outcomes)
  /\ wr.pc \in {"sleep", "done"} => Len(wr.sleeps) = Len(wr.outcomes) - 1
  /\ wr.pc = "sleep" => Last(wr.outcomes) \in TransientErrors /\ Len(wr.outcomes) <= MaxRetries

\* a call that used all four attempts and slept 10, 20 and 40 ms between
\* them, and not after the fourth
C34_Witness ==
  /\ wr.pc = "done" /\ wr.err = ErrExhausted
  /\ Len(wr.outcomes) = MaxRetries + 1
  /\ wr.sleeps = BackoffSchedule

\* ------------------------------------------- request log: the classifier
\* An error value as the caller of isRetryableError can hold one: the words
\* of its Error() text and the status code it carries, if any ("busy" for
\* the engine's busy status, as a go-sqlite3 Error with Code ErrBusy).  The
\* empty text without a code stands for nil.
ErrWords == {"database", "table", "is", "locked", "SQLITE_BUSY", "full"}
MaxErrWords == 3

RECURSIVE TextsUpTo(_)
TextsUpTo(n) ==
  IF n = 0 THEN {<< >>}
  ELSE LET shorter == TextsUpTo(n - 1)
       IN shorter \cup {Append(s, w) : s \in {t \in shorter : Len(t) = n - 1},
                                        w \in ErrWords}

ErrTexts == TextsUpTo(MaxErrWords) \cup OpErrors
ErrCodes == {"none", "busy"}
ErrValues == {[msg |-> m, code |-> c] : m \in ErrTexts, c \in ErrCodes}
                \ {[msg |-> << >>, code |-> "busy"]}
ErrNil == [msg |-> << >>, code |-> "none"]

\* line 159: err.Error(); the classifier reads nothing else of the error
ErrorText(e) == e.msg

\* isRetryableError(e) is called
Classify(e) ==
  /\ fn = NoApply
  /\ fn' = [op |-> "isRetryableError", arg |-> e,
            result |-> isRetryableError(ErrorText(e))]
  /\ UNCHANGED <<limiterVars, webVars, now, nEvents, rows, wr, ba, ws, conns>>

NextClassify == \E e \in ErrValues : Classify(e)

SpecClassify == InitLog /\ [][NextClassify]_vars

\* the error matches a known contention signature
ContentionSignature(e) ==
  /\ e /= ErrNil
  /\ \/ Contains(e.msg, <<"database", "is", "locked">>)
     \/ Contains(e.msg, <<"database", "table", "is", "locked">>)
     \/ Contains(e.msg, <<"SQLITE_BUSY">>)
     \/ e.code = "busy"

\* C35: an error is classified transient if and only if its text contains
\* "database is locked", "database table is locked" or "SQLITE_BUSY", or it
\* carries the engine's busy status code; nil and every other error are
\* classified not transient.
C35_Classification ==
  fn.op = "isRetryableError" => (fn.result <=> ContentionSignature(fn.arg))

\* ------------------------------------- request log: concurrent write calls
\* Two tasks call LogRequest concurrently, a third is served by the rate
\* limiter and a fourth calls the session store.  The operation of a write
\* call is db.conn.Exec (lines 124-126), which takes a connection of the
\* pool for the statement and returns it when the statement is done;
\* initSchema (line 96) allows MaxOpenConns connections.
MaxOpenConns == 25
ConcOutcomes == {<< >>, ErrLocked, ErrDiskFull}
ConcAddr == <<65>>
ConcURL == <<65, 65>>

\* a pool that leaves the connection with the task
connKeep(c, t) == c
\* database/sql: the connection of task t goes back to the pool
connPut(c, t) == c \ {t}

\* task t calls LogRequest(ipAddress, url)
ConcLogRequest(t, ipAddress, url) ==
  /\ ws[t].pc \in {"idle", "done"}
  /\ nEvents' = nEvents + 1
  /\ ws' = [ws EXCEPT ![t] = logBegin("LogRequest", ipAddress, url)]
  /\ UNCHANGED <<limiterVars, webVars, now, rows, wr, ba, conns, fn>>

\* database/sql: Exec of task t gets a connection, waiting while all
\* MaxOpenConns are in use
connGet(t) ==
  /\ ws[t].pc = "operation"
  /\ t \notin conns
  /\ Cardinality(conns) < MaxOpenConns
  /\ conns' = conns \cup {t}
  /\ UNCHANGED <<limiterVars, webVars, now, nEvents, rows, wr, ba, ws, fn>>

\* the INSERT of task t runs on its connection and returns e
ConcOperation(t, e) ==
  /\ ws[t].pc = "operation"
  /\ t \in conns
  /\ rows' = insertRow(rows, ws[t], e)
  /\ ws' = [ws EXCEPT ![t] = operationReturn(@, e)]
  /\ conns' = connPut(conns, t)
  /\ UNCHANGED <<limiterVars, webVars, now, nEvents, wr, ba, fn>>

\* task t has slept its backoff
ConcSleep(t) ==
  /\ ws[t].pc = "sleep"
  /\ ws' = [ws EXCEPT ![t] = sleepReturn(@)]
  /\ UNCHANGED <<limiterVars, webVars, now, nEvents, rows, wr, ba, conns, fn>>

\* the next step of the write call of task t, or the begin of its next call
writerStep(t) ==
  \/ ConcLogRequest(t, ConcAddr, ConcURL)
  \/ connGet(t)
  \/ \E e \in ConcOutcomes : ConcOperation(t, e)
  \/ ConcSleep(t)

\* the next step of the request task p is serving, or its next request
admitStep(p) ==
  \/ ServeHTTP(p, SeqRequest)
  \/ getLimiter(p)
  \/ limiterAllow(p)

\* the next step of the store call of task w, or its next call (no time
\* passes here, so no Session expires and Get deletes none)
storeStep(w) ==
  \/ \E u \in Usernames, r \in RandOutcomes : Create(w, u, r)
  \/ CreateStore(w)
  \/ \E id \in SessionIDs : Get(w, id)
  \/ GetCheck(w)

MaxSleepEvents == 4
AdmitProc == "p1"
StoreProc == "w2"

NextSleep ==
  \/ nEvents < MaxSleepEvents /\ \E t \in Writers : ConcLogRequest(t, ConcAddr, ConcURL)
  \/ \E t \in Writers : connGet(t)
  \/ \E t \in Writers, e \in ConcOutcomes : ConcOperation(t, e)
  \/ \E t \in Writers : ConcSleep(t)
  \/ nEvents < MaxSleepEvents /\ ServeHTTP(AdmitProc, SeqRequest)
  \/ getLimiter(AdmitProc)
  \/ limiterAllow(AdmitProc)
  \/ nEvents < MaxSleepEvents
       /\ \E u \in Usernames, r \in RandOutcomes : Create(StoreProc, u, r)
  \/ CreateStore(StoreProc)
  \/ nEvents < MaxSleepEvents /\ \E id \in SessionIDs : Get(StoreProc, id)
  \/ GetCheck(StoreProc)

SpecSleep == InitLog /\ [][NextSleep]_vars

\* C36: while a write call sleeps between two attempts, its task holds no
\* connection of the pool and no mutex, and the next step of every other
\* call is enabled: of a concurrent write call, of a request at the rate
\* limiter and of a call of the session store, each of which can so run to
\* its end with the sleeper still asleep.
C36_SleepBlocksNobody ==
  \A t \in Writers :
    ws[t].pc = "sleep" =>
      /\ t \notin conns
      /\ mu /= t
      /\ \A l \in DOMAIN bmu : bmu[l] /= t
      /\ \A o \in Writers \ {t} : ENABLED writerStep(o)
      /\ ENABLED admitStep(AdmitProc)
      /\ ENABLED storeStep(StoreProc)

\* one write call sleeps while the other holds a connection for its INSERT,
\* a request is between the global and the per-IP limiter, and a Get of the
\* session store is under way
C36_Witness ==
  \E t \in Writers, o \in Writers :
    /\ ws[t].pc = "sleep"
    /\ ws[o].pc = "operation" /\ o \in conns
    /\ pc[AdmitProc] = "getLimiter"
    /\ call[StoreProc].pc \in {"check", "store"}

\* the row a write call inserts
RowOf(wf) == [ip_address |-> wf.ipAddress, url |-> wf.url]

\* C37: the arguments are sanitized once, when the call begins and before
\* the first attempt; every attempt and every sleep of the call leaves the
\* sanitized address and URL as they are, and an attempt inserts them or
\* (when it fails) nothing; so a call that returns nil has added exactly one
\* row, which holds the sanitized arguments, and a call that returns an
\* error has added none.
C37_SanitizedOnceOneRow ==
  [][/\ wr.pc \in {"idle", "done"} /\ wr' /= wr =>
          /\ wr'.ipAddress = sanitizeInput(wr'.rawAddr, AddrMaxLen)
          /\ wr'.url = sanitizeInput(wr'.rawURL, URLMaxLen)
          /\ wr'.outcomes = << >>
          /\ rows' = rows
     /\ wr.pc \in {"operation", "sleep"} =>
          /\ wr'.ipAddress = wr.ipAddress
          /\ wr'.url = wr.url
          /\ wr'.before = wr.before
     /\ wr.pc = "operation" /\ wr' /= wr =>
          IF Last(wr'.outcomes) = << >>
            THEN rows' = Append(rows, RowOf(wr)) /\ wr'.pc = "done" /\ wr'.err = << >>
            ELSE rows' = rows
     /\ wr.pc = "sleep" => rows' = rows
     /\ wr'.pc = "done" /\ wr'.err = << >> =>
          /\ Len(rows') = wr'.before + 1
          /\ Last(rows') = RowOf(wr')
          /\ SubSeq(rows', 1, wr'.before) = SubSeq(rows, 1, wr'.before)
     /\ wr'.pc = "done" /\ wr'.err /= << >> => Len(rows') = wr'.before]_vars

\* a call given a URL with a control character failed twice, slept twice
\* and then succeeded: the one row it added holds the sanitized URL
C37_Witness ==
  /\ wr.pc = "done" /\ wr.err = << >>
  /\ Len(wr.outcomes) = 3 /\ Len(wr.sleeps) = 2
  /\ wr.url = sanitizeInput(<<10, 65>>, URLMaxLen)
  /\ wr.url /= <<10, 65>>
  /\ Len(rows) = wr.before + 1
  /\ Last(rows) = RowOf(wr)

\* --------------------------------------------- the address of the caller
\* The requests both getIPAddress functions are given: a peer address, an
\* X-Forwarded-For value and an X-Real-IP value of up to MaxHeaderLen
\* characters (<< >> = header not sent).
MaxHeaderLen == 3
PeerChars == {"a", ":"}
ForwardedChars == {"a", ",", " "}

RECURSIVE SeqsUpTo(_, _)
SeqsUpTo(A, n) ==
  IF n = 0 THEN {<< >>}
  ELSE LET shorter == SeqsUpTo(A, n - 1)
       IN shorter \cup {Append(s, c) : s \in {t \in shorter : Len(t) = n - 1}, c \in A}

AddressRequests ==
  {Request(a, x, i) : a \in SeqsUpTo(PeerChars, MaxHeaderLen),
                      x \in SeqsUpTo(ForwardedChars, MaxHeaderLen),
                      i \in {<< >>, <<"b">>}}

\* strings.TrimSpace
IsSpace(c) == c \in {" ", "\t", "\n", "\r"}
RECURSIVE TrimLeft(_)
TrimLeft(s) == IF s /= << >> /\ IsSpace(Head(s)) THEN TrimLeft(Tail(s)) ELSE s
RECURSIVE TrimRight(_)
TrimRight(s) ==
  IF s /= << >> /\ IsSpace(s[Len(s)]) THEN TrimRight(SubSeq(s, 1, Len(s) - 1)) ELSE s
TrimSpace(s) == TrimRight(TrimLeft(s))

\* strings.Split(s, sep)[0]: s up to its first sep, all of s without one
SplitFirst(s, sep) == IF indexOf(s, sep) = -1 THEN s ELSE SubSeq(s, 1, indexOf(s, sep))

\* strings.LastIndex(s, c): 0-based index of the last c in s, or -1
RECURSIVE LastIndexFrom(_, _, _)
LastIndexFrom(s, c, i) ==
  IF i = 0 THEN -1
  ELSE IF s[i] = c THEN i - 1
  ELSE LastIndexFrom(s, c, i - 1)
LastIndex(s, c) == LastIndexFrom(s, c, Len(s))

\* part_005 lines 71-93: getIPAddress of package handler
handlerGetIPAddress(r) ==
  IF r.XFF /= << >>
    THEN TrimSpace(SplitFirst(r.XFF, ","))
  ELSE IF r.XRealIP /= << >>
    THEN r.XRealIP
  ELSE IF LastIndex(r.RemoteAddr, ":") /= -1
    THEN SubSeq(r.RemoteAddr, 1, LastIndex(r.RemoteAddr, ":"))
  ELSE r.RemoteAddr

\* a request r passes the rate limiter, which derives its key (ratelimit.go
\* line 83), and reaches the logging handler, which derives the address it
\* hands to LogRequest (part_005 lines 29 and 45)
DeriveAddress(r) ==
  /\ fn = NoApply
  /\ fn' = [op |-> "getIPAddress", arg |-> r,
            result |-> [key |-> getIPAddress(r), address |-> handlerGetIPAddress(r)]]
  /\ UNCHANGED <<limiterVars, webVars, now, nEvents, rows, wr, ba, ws, conns>>

NextAddr == \E r \in AddressRequests : DeriveAddress(r)

SpecAddr == InitLog /\ [][NextAddr]_vars

\* C40: for every request, the key the rate limiter derives equals the
\* address the logging handler derives.
C40_SameCallerAddress ==
  fn.op = "getIPAddress" => fn.result.key = fn.result.address

\* ------------------------------------------- rate limiter: the global token
\* C38: a request that the global limiter admits takes one token from it
\* (its level becomes the refilled level less one token), and no later step
\* of the request gives the token back: not the lookup of the per-IP
\* limiter, and not the rejection by the per-IP limiter.  A request rejected
\* for its key has thus lowered the level all keys share.
C38_GlobalTokenKept ==
  [][\A p \in Procs :
       /\ pc[p] \in {"idle", "done"} /\ pc'[p] = "getLimiter" =>
            /\ global'.tokens = Tokens(global, now) - Scale
            /\ global'.last = now
       /\ pc[p] = "getLimiter" /\ pc'[p] = "allow" => global' = global
       /\ pc[p] = "allow" /\ pc'[p] = "done" => global' = global]_vars

\* two requests at the same instant: both took a global token, and the
\* per-IP limiter (capacity 1) rejected the second
C38_Witness ==
  /\ nEvents = 2 /\ now = 0
  /\ perIPBurst = 1
  /\ global.tokens = (global.burst - 2) * Scale
  /\ \E p \in Procs : pc[p] = "done" /\ allowed[p] = "ipReject"
  /\ \E p \in Procs : pc[p] = "done" /\ allowed[p] = "accept"

\* ----------------------------------------------------------------------
\* The limiter with its admissions recorded: NewRateLimiter(10, 30) (one
\* token per key, three in all) and NewRateLimiter(20, 10) (two tokens per
\* key, one in all), two request tasks and the sweep.
RateConfigs == {<<10, 30>>, <<20, 10>>}
MaxRateEvents == 3

InitRate ==
  InitLimiter(RateConfigs, NewRecord) /\ NewSessionStore(HandlerTimeout) /\ NewLog({<<"", "">>})

NextRate ==
  \/ nEvents < MaxRateEvents /\ \E p \in Procs, r \in Requests : ServeHTTP(p, r)
  \/ \E p \in Procs : getLimiter(p)
  \/ \E p \in Procs : limiterAllow(p)
  \/ nEvents < MaxRateEvents /\ \E d \in TickSteps : Tick(d)
  \/ cleanupLock
  \/ \E k \in pending : cleanupVisit(k)
  \/ cleanupUnlock

SpecRate == InitRate /\ [][NextRate]_vars

\* the sum of the numbers the history m holds for the elements of S
RECURSIVE SumOver(_, _)
SumOver(m, S) ==
  IF S = {} THEN 0
  ELSE LET x == CHOOSE y \in S : TRUE IN m[x] + SumOver(m, S \ {x})

\* the keys and the instants of the recorded admissions
AdmittedKeys == {x[1] : x \in DOMAIN adm.admits}
AdmittedTimes == {x[2] : x \in DOMAIN adm.admits}
\* the requests of key k admitted in the window from s to t, and the
\* requests admitted in it for all keys
AdmittedFor(k, s, t) ==
  SumOver(adm.admits, {x \in DOMAIN adm.admits : x[1] = k /\ s <= x[2] /\ x[2] <= t})
AdmittedIn(s, t) ==
  SumOver(adm.admits, {x \in DOMAIN adm.admits : s <= x[2] /\ x[2] <= t})
\* the requests the global limiter let pass in the window from s to t
PassedIn(s, t) ==
  SumOver(adm.passes, {u \in DOMAIN adm.passes : s <= u /\ u <= t})

\* what a bucket of the given capacity and refill rate lets through in a
\* window of T seconds, in units of 1/Scale request
RateBound(burst, limit, T) == burst * Scale + limit * T

\* C39: in every time window, whatever the interleaving of admit calls and
\* sweeps, the requests admitted for one key are at most the per-key
\* capacity plus the per-key refill rate times the length of the window,
\* and the requests admitted for all keys are at most the global capacity
\* plus the global refill rate times the length of the window.  A window
\* that breaks a bound still breaks it when cut down to its first and its
\* last admission, so the windows between two recorded instants are all
\* the windows there are to check.
C39_RateBound ==
  \A s \in AdmittedTimes, t \in AdmittedTimes :
    s <= t =>
      /\ \A k \in AdmittedKeys :
           AdmittedFor(k, s, t) * Scale <= RateBound(perIPBurst, perIPRate, t - s)
      /\ AdmittedIn(s, t) * Scale <= RateBound(global.burst, global.limit, t - s)

====
